---- MODULE Spec2Model ----
(***************************************************************************)
(* HAPIE local agent: model registry (hapie/models/manager.py, setup.py,   *)
(* api/models.py), inference engine (hapie/models/inference.py and its     *)
(* callers in api/chat.py, api/intents.py) and the streaming artifact      *)
(* fetch (ModelManager.pull_model_stream, api/models.py event_generator).  *)
(*                                                                         *)
(* Scheduling.  The server is one uvicorn process with one asyncio event   *)
(* loop (main.py:97).  Every endpoint is an `async def`; the code between  *)
(* two suspension points (await / yield of an async generator) runs        *)
(* without interleaving.  setup.py is a second operating-system process    *)
(* working on the same SQLite file, so registry transactions of the two    *)
(* processes interleave at statement granularity, under SQLite's single    *)
(* writer lock (a writer that finds the lock taken waits).                 *)
(***************************************************************************)
EXTENDS Integers, Sequences, FiniteSets, TLC

\* ---------------------------------------------------------------- bounds
MaxModels == 1          \* user model ids are 1..MaxModels
BaseId == 0             \* "qwen2.5-1.5b-instruct", the id setup.py installs

MaxPaths == 2           \* artifact paths are 1..MaxPaths
MaxReqs == 2            \* chat requests are 1..MaxReqs
MaxStreams == 2         \* progress streams are 1..MaxStreams
MaxPolls == 1           \* poll rounds (0.5 s each) a stream is followed for

ModelIds == 0..MaxModels
Paths == 1..MaxPaths
None == -1              \* Python None / no row

Reqs == 1..MaxReqs
Streams == 1..MaxStreams

Engines == {"chat", "intent"}   \* chat.py:22 and intents.py:29 instances

Procs == {"api", "setup"}
NoProc == "none"

VARIABLES
    models,      \* table `models`, committed rows: id -> row
    pc,          \* position of each process in its current handler
    arg,         \* model id the current handler works on
    ret,         \* return value of the last set_active_model call
    sess,        \* uncommitted rows of the session opened by set_active_model
    wlock,       \* holder of SQLite's write lock
    lastSet,     \* id of the most recently committed set_active_model
    loaded_models, \* InferenceEngine._loaded_models of each engine instance
    lastOp,      \* last InferenceEngine call: arguments and outcome
    reqs,        \* POST /single requests: state, model_id, result
    system_model_id, \* IntentClassifier._system_model_id
    cancel_flags,    \* ModelManager._cancel_flags: ids whose flag is set
    streams,         \* pull_model_stream generators: position, id, events
    future,          \* the hf_hub_download running in each stream's executor
    stream_elapsed,  \* each stream's last reading of the time since it started
    progress,        \* the progress field of each line a stream has written
    files,           \* artifact paths that exist on disk
    regOp,           \* last ModelManager call of the api process and its result
    hardware,        \* what the machine would report to a detection now
    cached_capability, \* HardwareDetector._cached_capability per instance
    cloudOp,         \* last InferenceEngine.generate_cloud call and its result
    chatOut,         \* what single_chat last answered for a cloud row
    api_keys,        \* table `api_keys`: providers with a stored key
    policyOp,        \* last PolicyEngine.evaluate call and its result
    earlierOp,       \* an earlier evaluate call, kept to compare results
    detOp,           \* last HardwareDetector.detect call and its result
    probeOp,         \* last run of the hardware probes and the snapshot built
    genOut,          \* last successful InferenceEngine.generate result
    statusOp,        \* last answer of the status introspection
    last_detected    \* the snapshot the most recent hardware detection produced

regVars == <<models, pc, arg, ret, sess, wlock, lastSet>>
engVars == <<loaded_models, lastOp, reqs, system_model_id>>
dlVars == <<cancel_flags, streams, future, stream_elapsed, progress>>
fsVars == <<files, regOp>>
hwVars == <<hardware, cached_capability, last_detected>>
cloudVars == <<cloudOp, api_keys, chatOut>>
polVars == <<policyOp, earlierOp>>
obsVars == <<probeOp, genOut, statusOp>>
callVars == <<polVars, detOp, obsVars>>
vars == <<models, pc, arg, ret, sess, wlock, lastSet, loaded_models, lastOp,
          reqs, system_model_id, cancel_flags, streams, future,
          stream_elapsed, progress, files, regOp,
          hardware, cached_capability, cloudOp, api_keys, chatOut,
          last_detected,
          policyOp, earlierOp, detOp, probeOp, genOut, statusOp>>

\* ------------------------------------------------------- registry: rows
EmptyTable == [m \in {} |-> 0]

\* db/models.py Model: the columns the registry operations read or write
Row(active, base, type, role, backend, path, size, name) ==
    [is_active |-> active, is_base_model |-> base, type |-> type, role |-> role,
     backend |-> backend, model_path |-> path, size_mb |-> size, name |-> name]

\* the model_path of a cloud row: an API endpoint, no artifact path
ApiEndpoint == MaxPaths + 1

\* ModelManager.list_models, projected on the flags
ActiveIds(tbl) == {m \in DOMAIN tbl : tbl[m].is_active}
BaseIds(tbl) == {m \in DOMAIN tbl : tbl[m].is_base_model}

\* ModelManager.get_active_model: .first() without ORDER BY, so any active row
get_active_model(tbl) ==
    IF ActiveIds(tbl) = {} THEN {None} ELSE ActiveIds(tbl)

\* set_active_model line 97: UPDATE models SET is_active = 0 (inside the session)
DeactivateAll_NoUpdate(tbl) == tbl
DeactivateAll(tbl) ==
    [m \in DOMAIN tbl |-> [tbl[m] EXCEPT !.is_active = FALSE]]

\* set_active_model lines 100-104: load the target row, set the flag, commit
ActivateRow(tbl, id) == [tbl EXCEPT ![id].is_active = TRUE]

\* set_active_model lines 105-107: return False, session.close() discards the
\* uncommitted UPDATE
CloseWithoutCommit_Flush(committed, pending) == pending
CloseWithoutCommit(committed, pending) == committed

\* register_model lines 125-143: existing id is returned untouched, a new id
\* is inserted with the column default is_active = False
register_model_Overwrite(tbl, id, base, type, role, backend, path, size, name) ==
    [m \in DOMAIN tbl \cup {id} |->
        IF m = id THEN Row(FALSE, base, type, role, backend, path, size, name)
        ELSE tbl[m]]
register_model(tbl, id, base, type, role, backend, path, size, name) ==
    IF id \in DOMAIN tbl THEN tbl
    ELSE [m \in DOMAIN tbl \cup {id} |->
            IF m = id THEN Row(FALSE, base, type, role, backend, path, size, name)
            ELSE tbl[m]]

\* Path(local_path).stat().st_size / (1024 * 1024): the size on disk of the
\* file hf_hub_download stored at path (manager.py 228 and 341)
stat_size_mb(path) == 10 * path

\* pull_huggingface_model lines 231-243: what a finished download registers
register_pulled_Active(tbl, id, path) ==
    IF id \in DOMAIN tbl THEN tbl
    ELSE [register_model(tbl, id, FALSE, "local", "none", "llama.cpp", path,
                         stat_size_mb(path), "hf") EXCEPT ![id].is_active = TRUE]
register_pulled_DeclaredSize(tbl, id, path) ==
    register_model(tbl, id, FALSE, "local", "none", "llama.cpp", path, 0, "hf")
register_pulled(tbl, id, path) ==
    register_model(tbl, id, FALSE, "local", "none", "llama.cpp", path,
                   stat_size_mb(path), "hf")

\* remove_model lines 151-171
remove_model_Unguarded(tbl, id) == [m \in DOMAIN tbl \ {id} |-> tbl[m]]
remove_model(tbl, id) ==
    IF id \notin DOMAIN tbl THEN tbl
    ELSE IF tbl[id].is_base_model THEN tbl
    ELSE [m \in DOMAIN tbl \ {id} |-> tbl[m]]

\* remove_model: what the call returns (False, True) or raises (ValueError
\* "Cannot remove base model", surfaced by the endpoint as status 400)
remove_result(tbl, id) ==
    IF id \notin DOMAIN tbl THEN "false"
    ELSE IF tbl[id].is_base_model THEN "invalid_state"
    ELSE "true"

\* remove_model lines 159-167: whether the call unlinks the backing artifact
\* (a local row with a model_path that exists on disk)
unlinks(tbl, id, fs) ==
    /\ remove_result(tbl, id) = "true"
    /\ tbl[id].type = "local"
    /\ tbl[id].model_path \in fs

\* the files on disk after remove_model
remove_files(tbl, id, fs) ==
    IF unlinks(tbl, id, fs) THEN fs \ {tbl[id].model_path} ELSE fs

\* the writes of remove_model in the order the code makes them
remove_effects_RowFirst(tbl, id, fs) ==
    IF remove_result(tbl, id) # "true" THEN <<>>
    ELSE IF unlinks(tbl, id, fs) THEN <<"delete_row", "unlink">>
    ELSE <<"delete_row">>
remove_effects(tbl, id, fs) ==
    IF remove_result(tbl, id) # "true" THEN <<>>
    ELSE IF unlinks(tbl, id, fs) THEN <<"unlink", "delete_row">>
    ELSE <<"delete_row">>

\* a ModelManager call made by an endpoint and what came back
RegCall(op, id, result, effects) ==
    [op |-> op, id |-> id, result |-> result, effects |-> effects]
NoRegCall == RegCall("none", None, "none", <<>>)

\* setup.py lines 52-56: mark the pulled row as base model and as active
MarkBase(tbl, id) ==
    IF id \in DOMAIN tbl
    THEN [tbl EXCEPT ![id].is_base_model = TRUE, ![id].is_active = TRUE]
    ELSE tbl

\* --------------------------------------------------- inference engine
\* policy/engine.py ExecutionPolicy
ExecutionPolicy(backend, max_batch_size, max_context_length, use_quantization, quantization_bits, gpu_layers, max_threads) ==
    [backend |-> backend, max_batch_size |-> max_batch_size,
     max_context_length |-> max_context_length,
     use_quantization |-> use_quantization,
     quantization_bits |-> quantization_bits,
     gpu_layers |-> gpu_layers, max_threads |-> max_threads]

\* a policy given by the fields load_model reads; the fields it does not
\* read are those of the most restricted tier
Policy(backend, gpu_layers, ctx, threads) ==
    ExecutionPolicy(backend, 1, ctx, TRUE, 4, gpu_layers, threads)

\* the policies load_model is exercised with as a component: the result of
\* _cuda_policy for VRAM >= 8 on a 4-thread machine, and a policy for
\* BackendType.METAL that asks for layers to be offloaded
Policies == {Policy("cuda", 999, 4096, 4), Policy("metal", 20, 1024, 2)}

\* hardware/detector.py SystemCapability, the fields PolicyEngine reads.
\* Sizes are in hundredths of a GB (the probes round to two decimals);
\* Unknown is gpu_vram_gb = None.
Unknown == -1
SystemCapability(gpu_vendor, gpu_vram_gb, available_ram_gb, cpu_threads) ==
    [gpu_vendor |-> gpu_vendor, gpu_vram_gb |-> gpu_vram_gb,
     available_ram_gb |-> available_ram_gb, cpu_threads |-> cpu_threads]

\* GPUVendor
Vendors == {"nvidia", "amd", "intel", "none"}

\* the machines the server is followed on: an NVIDIA card with 8 GB of VRAM
\* on a 4-thread machine, or no usable GPU and 6 GB of available RAM
nvidia_8gb == SystemCapability("nvidia", 800, 1600, 4)
cpu_low == SystemCapability("none", Unknown, 600, 2)
Capabilities == {nvidia_8gb, cpu_low}

\* _cached_capability = None
NoCap == SystemCapability("none", Unknown, 0, 0)

\* ------------------------------------------------- the hardware probes
\* what GPUtil.getGPUs() does when one of the probes calls it: it raises,
\* or returns a list of count cards whose first has the given name and
\* memory (count = 0: the empty list).  The memory is in hundredths of a GB.
GpuAnswer(kind, name, vram, count) ==
    [kind |-> kind, name |-> name, vram |-> vram, count |-> count]
NoName == ""
Raises == GpuAnswer("raises", NoName, Unknown, 0)
GpuAnswers == {Raises,
               GpuAnswer("list", NoName, Unknown, 0),
               GpuAnswer("list", "geforce rtx 3070", 800, 1),
               GpuAnswer("list", "matrox g200", 0, 2)}

\* _detect_gpu_vendor lines 128-136: the vendor read from the card's name
VendorOf(name) ==
    IF name = "geforce rtx 3070" THEN "nvidia"
    ELSE IF name = "radeon rx 580" THEN "amd"
    ELSE IF name = "intel arc a380" THEN "intel"
    ELSE "none"

\* the four GPU probes; available is GPU_UTIL_AVAILABLE, answer what
\* getGPUs does for this probe
detect_gpu_vendor(available, answer) ==
    IF ~available \/ answer.kind = "raises" \/ answer.count = 0 THEN "none"
    ELSE VendorOf(answer.name)

detect_gpu_name(available, answer) ==
    IF ~available \/ answer.kind = "raises" \/ answer.count = 0 THEN NoName
    ELSE answer.name

detect_gpu_vram_ZeroForNone(available, answer) ==
    IF ~available \/ answer.kind = "raises" \/ answer.count = 0 THEN 0
    ELSE answer.vram
detect_gpu_vram(available, answer) ==
    IF ~available \/ answer.kind = "raises" \/ answer.count = 0 THEN Unknown
    ELSE answer.vram

detect_gpu_count(available, answer) ==
    IF ~available \/ answer.kind = "raises" THEN 0 ELSE answer.count

\* _detect_cpu_cores / _detect_cpu_threads: psutil.cpu_count() or 1, where
\* reported = 0 stands for None
detect_cpu_count(reported) == IF reported = 0 THEN 1 ELSE reported

\* detect lines 70-83: the snapshot built from the probes; answers are what
\* getGPUs does for the vendor, name, vram and count probe in this order
Snapshot(cores, threads, vendor, name, vram, count) ==
    [cpu_cores |-> cores, cpu_threads |-> threads, gpu_vendor |-> vendor,
     gpu_name |-> name, gpu_vram_gb |-> vram, gpu_count |-> count]

probe(available, answers, cores, threads) ==
    Snapshot(detect_cpu_count(cores), detect_cpu_count(threads),
             detect_gpu_vendor(available, answers[1]),
             detect_gpu_name(available, answers[2]),
             detect_gpu_vram(available, answers[3]),
             detect_gpu_count(available, answers[4]))

\* a run of the probes: the inputs and the snapshot
ProbeRun(available, answers, cores, threads, snapshot) ==
    [available |-> available, answers |-> answers, cores |-> cores,
     threads |-> threads, snapshot |-> snapshot]
NoProbe ==
    ProbeRun(FALSE, <<Raises, Raises, Raises, Raises>>, 0, 0,
             Snapshot(0, 0, "none", NoName, Unknown, 0))

\* the HardwareDetector instances: chat.py:23, intents.py:30, system.py:40
Detectors == {"chat", "intent", "system"}

\* HardwareDetector.detect: the cached snapshot unless there is none or a
\* refresh is forced; the result is also what the cache holds afterwards
detect_NoCache(cache, hw, force_refresh) == hw
detect(cache, hw, force_refresh) ==
    IF cache # NoCap /\ ~force_refresh THEN cache ELSE hw

\* a call of detect on detector d: its argument and what it returned
DetectCall(d, force_refresh, result) ==
    [d |-> d, force_refresh |-> force_refresh, result |-> result]
NoDetectCall == DetectCall("none", FALSE, NoCap)

\* Python truth value of an Optional[float]: None and 0.0 are false
Truthy(x) == x # Unknown /\ x # 0

Min(a, b) == IF a <= b THEN a ELSE b

\* PolicyEngine._select_backend
select_backend(capability) ==
    IF capability.gpu_vendor = "nvidia" /\ Truthy(capability.gpu_vram_gb)
    THEN "cuda"
    ELSE IF capability.gpu_vendor \in {"amd", "intel"} THEN "cpu"
    ELSE "cpu"

\* PolicyEngine._cuda_policy
cuda_policy_StrictCut(capability) ==
    LET vram_gb == IF Truthy(capability.gpu_vram_gb)
                   THEN capability.gpu_vram_gb ELSE 0
    IN  IF vram_gb > 800
        THEN ExecutionPolicy("cuda", 8, 4096, FALSE, 16, 999,
                             capability.cpu_threads)
        ELSE IF vram_gb > 400
        THEN ExecutionPolicy("cuda", 4, 2048, TRUE, 8, 20,
                             capability.cpu_threads)
        ELSE ExecutionPolicy("cuda", 2, 2048, TRUE, 4, 10,
                             capability.cpu_threads)
cuda_policy_NoOffload(capability) ==
    LET vram_gb == IF Truthy(capability.gpu_vram_gb)
                   THEN capability.gpu_vram_gb ELSE 0
    IN  IF vram_gb >= 800
        THEN ExecutionPolicy("cuda", 8, 4096, FALSE, 16, 999,
                             capability.cpu_threads)
        ELSE IF vram_gb >= 400
        THEN ExecutionPolicy("cuda", 4, 2048, TRUE, 8, 20,
                             capability.cpu_threads)
        ELSE ExecutionPolicy("cuda", 2, 2048, TRUE, 4, 0,
                             capability.cpu_threads)
cuda_policy(capability) ==
    LET vram_gb == IF Truthy(capability.gpu_vram_gb)
                   THEN capability.gpu_vram_gb ELSE 0
    IN  IF vram_gb >= 800
        THEN ExecutionPolicy("cuda", 8, 4096, FALSE, 16, 999,
                             capability.cpu_threads)
        ELSE IF vram_gb >= 400
        THEN ExecutionPolicy("cuda", 4, 2048, TRUE, 8, 20,
                             capability.cpu_threads)
        ELSE ExecutionPolicy("cuda", 2, 2048, TRUE, 4, 10,
                             capability.cpu_threads)

\* PolicyEngine._cpu_policy
cpu_policy_Uncapped(capability) ==
    LET ram_gb == capability.available_ram_gb
    IN  IF ram_gb >= 1600
        THEN ExecutionPolicy("cpu", 2, 4096, TRUE, 8, 0, capability.cpu_threads)
        ELSE IF ram_gb >= 800
        THEN ExecutionPolicy("cpu", 1, 2048, TRUE, 4, 0, capability.cpu_threads)
        ELSE ExecutionPolicy("cpu", 1, 1024, TRUE, 4, 0, capability.cpu_threads)
cpu_policy(capability) ==
    LET ram_gb == capability.available_ram_gb
    IN  IF ram_gb >= 1600
        THEN ExecutionPolicy("cpu", 2, 4096, TRUE, 8, 0,
                             Min(capability.cpu_threads, 8))
        ELSE IF ram_gb >= 800
        THEN ExecutionPolicy("cpu", 1, 2048, TRUE, 4, 0,
                             Min(capability.cpu_threads, 4))
        ELSE ExecutionPolicy("cpu", 1, 1024, TRUE, 4, 0,
                             Min(capability.cpu_threads, 2))

\* PolicyEngine.evaluate: _select_backend, then _cuda_policy / _cpu_policy
evaluate_ByLoad(capability) ==
    IF /\ select_backend(capability) = "cuda"
       /\ Truthy(capability.gpu_vram_gb)
       /\ loaded_models["chat"] = EmptyTable
    THEN cuda_policy(capability)
    ELSE cpu_policy(capability)
evaluate(capability) ==
    IF select_backend(capability) = "cuda" /\ Truthy(capability.gpu_vram_gb)
    THEN cuda_policy(capability)
    ELSE cpu_policy(capability)

\* load_model lines 107-116: the arguments the runtime handle is built from
Llama_AlwaysGpu(path, policy) ==
    [model_path |-> path,
     n_ctx |-> policy.max_context_length,
     n_threads |-> policy.max_threads,
     n_gpu_layers |-> policy.gpu_layers]
Llama(path, policy) ==
    [model_path |-> path,
     n_ctx |-> policy.max_context_length,
     n_threads |-> policy.max_threads,
     n_gpu_layers |-> IF policy.backend = "cuda" THEN policy.gpu_layers ELSE 0]

\* InferenceEngine.is_loaded
is_loaded(tbl, id) == id \in DOMAIN tbl

Store(tbl, id, h) == [m \in DOMAIN tbl \cup {id} |-> IF m = id THEN h ELSE tbl[m]]

\* InferenceEngine.load_model; ok = FALSE: the Llama constructor raises
\* (bad file, out of memory) and line 118 is never reached
load_model_Reload(tbl, path, policy, id, ok) ==
    IF ok THEN Store(tbl, id, Llama(path, policy)) ELSE tbl
load_model_StoreOnFail(tbl, path, policy, id, ok) ==
    IF is_loaded(tbl, id) THEN tbl ELSE Store(tbl, id, Llama(path, policy))
load_model_Evict(tbl, path, policy, id, ok) ==
    IF is_loaded(tbl, id) THEN tbl
    ELSE IF ok THEN Store(EmptyTable, id, Llama(path, policy))
    ELSE tbl
load_model(tbl, path, policy, id, ok) ==
    IF is_loaded(tbl, id) THEN tbl
    ELSE IF ok THEN Store(tbl, id, Llama(path, policy))
    ELSE tbl

\* what the caller of load_model sees
load_outcome(tbl, id, ok) ==
    IF is_loaded(tbl, id) THEN "noop"
    ELSE IF ok THEN "constructed"
    ELSE "load_error"

\* InferenceEngine.unload_model
unload_model_Clear(tbl, id) == IF is_loaded(tbl, id) THEN EmptyTable ELSE tbl
unload_model(tbl, id) ==
    IF is_loaded(tbl, id) THEN [m \in DOMAIN tbl \ {id} |-> tbl[m]] ELSE tbl

\* InferenceEngine.generate: the table after the call, and the outcome
generate_LazyLoad(tbl, id) ==
    IF is_loaded(tbl, id) THEN tbl
    ELSE Store(tbl, id, Llama(1, Policy("cpu", 0, 1024, 2)))
generate(tbl, id) == tbl

generate_outcome(tbl, id) ==
    IF ~is_loaded(tbl, id) THEN "not_loaded" ELSE "ok"

\* calls without a path or a policy argument carry these fillers
NoPath == 0
NoPolicy == Policy("none", 0, 0, 0)
Call(op, e, id, path, policy, outcome) ==
    [op |-> op, e |-> e, id |-> id, path |-> path, policy |-> policy,
     outcome |-> outcome]
NoOp == Call("none", "none", None, NoPath, NoPolicy, "none")

\* the result of a successful generate: whether it was asked to stream,
\* and the metrics of the (final) result; Absent: the key is not there
Absent == -1
Metrics(latency_ms, tokens_generated, tokens_per_sec) ==
    [latency_ms |-> latency_ms, tokens_generated |-> tokens_generated,
     tokens_per_sec |-> tokens_per_sec]
GenResult(stream, elapsed, tokens, metrics) ==
    [stream |-> stream, elapsed |-> elapsed, tokens |-> tokens,
     metrics |-> metrics]
NoGenResult == GenResult(FALSE, 0, 0, Metrics(Absent, Absent, Absent))

\* generate lines 171-185 and _stream_response lines 196-203: the metrics
\* of the result, from the elapsed time in ms and the number of tokens
\* (tokens per second in whole tokens)
generate_metrics(stream, elapsed, tokens) ==
    IF stream THEN Metrics(elapsed, Absent, Absent)
    ELSE Metrics(elapsed, tokens,
                 IF elapsed > 0 THEN (tokens * 1000) \div elapsed ELSE 0)

\* an answer of the status introspection: the ids it reports as loaded
StatusAnswer(made, loaded) == [made |-> made, loaded |-> loaded]
NoStatus == StatusAnswer(FALSE, {})

\* a call of PolicyEngine.evaluate: its argument and what it returned
PolicyCall(capability, policy) == [capability |-> capability, policy |-> policy]
NoPolicyCall == PolicyCall(NoCap, NoPolicy)

\* ------------------------------------------------------ generate_cloud
\* cloud/providers.py ProviderRegistry._providers, two of them
Providers == {"openai", "anthropic"}

\* HTTP status of the provider's answer; 200 is success, every other one
\* makes raise_for_status raise HTTPStatusError
Statuses == {200, 401, 403, 429, 500}

\* InferenceEngine.generate_cloud.  has_key: ApiKeyManager.get_key finds a
\* key (KeyError otherwise); responses: the statuses the provider would
\* answer to successive requests.  The result is the condition surfaced and
\* the number of times provider.generate was invoked.
CloudResult(outcome, invocations) ==
    [outcome |-> outcome, invocations |-> invocations]

CloudCondition(status) ==
    IF status = 200 THEN "ok"
    ELSE IF status = 401 THEN "invalid_key"
    ELSE IF status = 429 THEN "rate_limited"
    ELSE "provider_error"

generate_cloud_Retry(has_key, responses) ==
    IF ~has_key THEN CloudResult("no_key", 0)
    ELSE IF responses[1] = 429 THEN CloudResult(CloudCondition(responses[2]), 2)
    ELSE CloudResult(CloudCondition(responses[1]), 1)
generate_cloud(has_key, responses) ==
    IF ~has_key THEN CloudResult("no_key", 0)
    ELSE CloudResult(CloudCondition(responses[1]), 1)

CloudCall(has_key, responses, result) ==
    [has_key |-> has_key, responses |-> responses, result |-> result]
NoCloudCall == CloudCall(FALSE, <<200, 200>>, CloudResult("none", 0))

\* the status of the HTTPException generate_cloud raises for a condition
\* (inference.py lines 50, 69, 74, 79); 200 when it returns
cloud_status(outcome) ==
    IF outcome = "ok" THEN 200
    ELSE IF outcome = "no_key" THEN 400
    ELSE IF outcome = "invalid_key" THEN 401
    ELSE IF outcome = "rate_limited" THEN 429
    ELSE 500

\* what single_chat answers for a cloud row: the condition generate_cloud
\* ended in and the HTTP status the caller receives
ChatAnswer(condition, status) == [condition |-> condition, status |-> status]
NoChatAnswer == ChatAnswer("none", 0)

\* single_chat lines 307-316: 'except Exception' around generate_cloud
\* catches the HTTPException it raises and raises one with status 500
single_chat_cloud(result) ==
    ChatAnswer(result.outcome, IF result.outcome = "ok" THEN 200 ELSE 500)

\* ------------------------------------------------- POST /single routing
\* ModelManager.get_system_model: rows whose metadata role is system_intent
SystemIds(tbl) == {m \in DOMAIN tbl : tbl[m].role = "system_intent"}

\* ModelManager.get_active_chat_model: the active row unless it is the
\* system intent model (None then, and when no row is active)
get_active_chat_model_NoFilter(tbl) ==
    ActiveIds(tbl) \cup (IF ActiveIds(tbl) = {} THEN {None} ELSE {})
get_active_chat_model(tbl) ==
    {IF tbl[m].role = "system_intent" THEN None ELSE m : m \in ActiveIds(tbl)}
       \cup (IF ActiveIds(tbl) = {} THEN {None} ELSE {})

\* intents.py VALID_INTENTS
Intents == {"recommend", "pull", "system_status", "model_list",
            "switch_model", "chat"}

\* set_active_model run by the only writer: lines 97-107 in one piece
set_active_model(tbl, id) ==
    IF id \in DOMAIN tbl THEN ActivateRow(DeactivateAll(tbl), id) ELSE tbl

\* a chat request: st is new / pending / done, model_id is
\* ChatRequest.model_id, seen the ids loaded in some engine at arrival
Req(st, id, seen, used, result) ==
    [st |-> st, model_id |-> id, seen |-> seen, used |-> used,
     result |-> result]
NoReq == Req("new", None, {}, None, "none")

\* ------------------------------------------------------ progress streams
\* a pull_model_stream generator wrapped by event_generator: where it is
\* suspended, its model_id, and the NDJSON lines written so far.  Events:
\*   downloading  manager.py 301-308 and 328-336
\*   cancelled    status error, "Download cancelled" (319)
\*   complete     353-360
\*   auth_error, error   status error from the except clause (361-365)
\*   wrapper_error       status error written by event_generator
\*                       (api/models.py 395-396) for an exception that
\*                       escaped the generator
Stream(at, id, events) == [at |-> at, model_id |-> id, events |-> events]
NoStream == Stream("new", None, <<>>)

Terminal(ev) == ev # "downloading"

\* progress events yielded from inside the monitor loop (lines 328-336)
Polls(st) == Len(SelectSeq(st.events, LAMBDA ev : ev = "downloading")) - 1

\* the events pull_model_stream itself yielded
Yielded(st) == SelectSeq(st.events, LAMBDA ev : ev # "wrapper_error")

\* manager.py 319-321: where the generator is once the consumer resumes it
\* after the cancellation event (return ends it)
AfterCancelled_NoReturn == "sleep"
AfterCancelled == "done"

\* how hf_hub_download ends: "ok", or an exception, of which the code looks
\* at str(e) only.  An HTTP error's message starts with its status code; the
\* message also carries the URL and the request id, which may hold any digits
\* (http_404_id403: a 404 whose request id contains "403").
Outcomes == {"ok", "http_401", "http_403", "http_404", "http_404_id403",
             "conn_error"}

\* the HTTP status that ended the transfer (0: no HTTP answer at all)
HttpStatus(outcome) ==
    CASE outcome = "ok" -> 200
      [] outcome = "http_401" -> 401
      [] outcome = "http_403" -> 403
      [] outcome \in {"http_404", "http_404_id403"} -> 404
      [] OTHER -> 0

\* manager.py 223 and 362: "401" in str(e) or "403" in str(e)
MentionsAuthCode(outcome) ==
    outcome \in {"http_401", "http_403", "http_404_id403"}

\* manager.py 361-365: the event for a failed transfer
ErrorEvent(outcome) == IF MentionsAuthCode(outcome) THEN "auth_error" ELSE "error"

\* pull_huggingface_model lines 214-243: what the blocking variant gives its
\* caller: the registered row, the ValueError "Authentication failed", or
\* the exception of the download re-raised
pull_result(outcome) ==
    IF outcome = "ok" THEN "ok"
    ELSE IF MentionsAuthCode(outcome) THEN "auth_error"
    ELSE "error"

\* ------------------------------------------------------------------ Init
Init ==
    /\ models = EmptyTable
    /\ pc = [p \in Procs |-> "idle"]
    /\ arg = [p \in Procs |-> None]
    /\ ret = [p \in Procs |-> FALSE]
    /\ sess = [p \in Procs |-> EmptyTable]
    /\ wlock = NoProc
    /\ lastSet = None
    /\ loaded_models = [e \in Engines |-> EmptyTable]
    /\ lastOp = NoOp
    /\ reqs = [r \in Reqs |-> NoReq]
    /\ system_model_id = None
    /\ cancel_flags = {}
    /\ streams = [s \in Streams |-> NoStream]
    /\ future = [s \in Streams |-> "none"]
    /\ stream_elapsed = [s \in Streams |-> 0]
    /\ progress = [s \in Streams |-> <<>>]
    /\ files = {}
    /\ regOp = NoRegCall
    /\ hardware = cpu_low
    /\ cached_capability = [d \in Detectors |-> NoCap]
    /\ cloudOp = NoCloudCall
    /\ chatOut = NoChatAnswer
    /\ api_keys = {}
    /\ last_detected = NoCap
    /\ policyOp = NoPolicyCall
    /\ earlierOp = NoPolicyCall
    /\ detOp = NoDetectCall
    /\ probeOp = NoProbe
    /\ genOut = NoGenResult
    /\ statusOp = NoStatus

\* ------------------------------------------- registry: api process steps
\* POST /register -> ModelManager.register_model (one transaction)
Register(id, base, type, role, backend, path, size, name) ==
    /\ pc["api"] = "idle"
    /\ wlock = NoProc
    /\ models' = register_model(models, id, base, type, role, backend, path,
                                size, name)
    /\ regOp' = RegCall("register", id,
                        IF id \in DOMAIN models THEN "existing" ELSE "created",
                        <<>>)
    /\ UNCHANGED <<pc, arg, ret, sess, wlock, lastSet, engVars, dlVars>>
    /\ UNCHANGED <<files, hwVars, cloudVars, callVars>>

\* DELETE /{model_id} -> ModelManager.remove_model (one transaction)
Remove(id) ==
    /\ pc["api"] = "idle"
    /\ wlock = NoProc
    /\ models' = remove_model(models, id)
    /\ files' = remove_files(models, id, files)
    /\ regOp' = RegCall("remove", id, remove_result(models, id),
                        remove_effects(models, id, files))
    /\ UNCHANGED <<pc, arg, ret, sess, wlock, lastSet, engVars, dlVars>>
    /\ UNCHANGED <<hwVars, cloudVars, callVars>>

\* POST /active/{model_id}: the handler is entered with the requested id
SetActiveCall(id) ==
    /\ pc["api"] = "idle"
    /\ pc' = [pc EXCEPT !["api"] = "sa_call"]
    /\ arg' = [arg EXCEPT !["api"] = id]
    /\ UNCHANGED <<models, ret, sess, wlock, lastSet, engVars, dlVars>>
    /\ UNCHANGED <<fsVars, hwVars, cloudVars, callVars>>

\* pull_model_intent / pull_custom_model, first half: pull_huggingface_model
\* downloads and registers; a failed download raises and ends the handler
\* with status 500 (api/models.py 248-252, 298-299, 333-334)
PullIntent(id, path, ok) ==
    /\ pc["api"] = "idle"
    /\ wlock = NoProc
    /\ IF ok
       THEN /\ models' = register_pulled(models, id, path)
            /\ pc' = [pc EXCEPT !["api"] = "sa_call"]
            /\ arg' = [arg EXCEPT !["api"] = id]
       ELSE UNCHANGED <<models, pc, arg>>
    /\ files' = IF ok THEN files \cup {path} ELSE files
    /\ regOp' = RegCall("pull_intent", id, IF ok THEN "pulled" ELSE "500", <<>>)
    /\ UNCHANGED <<ret, sess, wlock, lastSet, engVars, dlVars>>
    /\ UNCHANGED <<hwVars, cloudVars, callVars>>

\* ------------------------------- set_active_model, statement by statement
\* line 97: the UPDATE takes the write lock and stays inside the session
SetActiveUpdate(p) ==
    /\ pc[p] = "sa_call"
    /\ wlock = NoProc
    /\ wlock' = p
    /\ sess' = [sess EXCEPT ![p] = DeactivateAll(models)]
    /\ pc' = [pc EXCEPT ![p] = "sa_update"]
    /\ UNCHANGED <<models, arg, ret, lastSet, engVars, dlVars>>
    /\ UNCHANGED <<fsVars, hwVars, cloudVars, callVars>>

\* lines 100-107: found -> set flag, commit, True; missing -> False, close
SetActiveFinish(p) ==
    /\ pc[p] = "sa_update"
    /\ IF arg[p] \in DOMAIN sess[p]
       THEN /\ models' = ActivateRow(sess[p], arg[p])
            /\ ret' = [ret EXCEPT ![p] = TRUE]
            /\ lastSet' = arg[p]
       ELSE /\ models' = CloseWithoutCommit(models, sess[p])
            /\ ret' = [ret EXCEPT ![p] = FALSE]
            /\ UNCHANGED lastSet
    /\ wlock' = NoProc
    /\ sess' = [sess EXCEPT ![p] = EmptyTable]
    /\ pc' = [pc EXCEPT ![p] = "sa_ret"]
    /\ UNCHANGED <<arg, engVars, dlVars>>
    /\ UNCHANGED <<fsVars, hwVars, cloudVars, callVars>>

\* the caller receives the result (api: 404 on False; setup: ignored)
SetActiveReturn(p) ==
    /\ pc[p] = "sa_ret"
    /\ pc' = [pc EXCEPT ![p] = "idle"]
    /\ arg' = [arg EXCEPT ![p] = None]
    /\ ret' = [ret EXCEPT ![p] = FALSE]
    /\ UNCHANGED <<models, sess, wlock, lastSet, engVars, dlVars>>
    /\ UNCHANGED <<fsVars, hwVars, cloudVars, callVars>>

\* ------------------------------------------------ setup.py setup_base_model
\* lines 25-31: list_models, look for a base model
SetupCheck ==
    /\ pc["setup"] = "idle"
    /\ IF BaseIds(models) # {}
       THEN \E b \in BaseIds(models) :
               /\ pc' = [pc EXCEPT !["setup"] = "sa_call"]
               /\ arg' = [arg EXCEPT !["setup"] = b]
       ELSE /\ pc' = [pc EXCEPT !["setup"] = "su_pull"]
            /\ arg' = [arg EXCEPT !["setup"] = BaseId]
    /\ UNCHANGED <<models, ret, sess, wlock, lastSet, engVars, dlVars>>
    /\ UNCHANGED <<fsVars, hwVars, cloudVars, callVars>>

\* lines 37-44 and 70-74: pull_huggingface_model registers BaseId, or exits
SetupPull(path, ok) ==
    /\ pc["setup"] = "su_pull"
    /\ wlock = NoProc
    /\ IF ok
       THEN /\ models' = register_pulled(models, BaseId, path)
            /\ pc' = [pc EXCEPT !["setup"] = "su_mark"]
            /\ UNCHANGED arg
       ELSE /\ pc' = [pc EXCEPT !["setup"] = "idle"]
            /\ arg' = [arg EXCEPT !["setup"] = None]
            /\ UNCHANGED models
    /\ files' = IF ok THEN files \cup {path} ELSE files
    /\ UNCHANGED <<ret, sess, wlock, lastSet, engVars, dlVars>>
    /\ UNCHANGED <<regOp, hwVars, cloudVars, callVars>>

\* lines 46-58: second session, flags set on the row, commit
SetupMark ==
    /\ pc["setup"] = "su_mark"
    /\ wlock = NoProc
    /\ models' = MarkBase(models, BaseId)
    /\ pc' = [pc EXCEPT !["setup"] = "idle"]
    /\ arg' = [arg EXCEPT !["setup"] = None]
    /\ UNCHANGED <<ret, sess, wlock, lastSet, engVars, dlVars>>
    /\ UNCHANGED <<fsVars, hwVars, cloudVars, callVars>>

\* -------------------------------------------------- stored keys, cloud
\* POST /api-keys/{provider} -> ApiKeyManager.save_key: insert or update
SaveKey(provider) ==
    /\ api_keys' = api_keys \cup {provider}
    /\ UNCHANGED <<regVars, engVars, dlVars, fsVars, hwVars, cloudOp,
                   chatOut, callVars>>

\* DELETE /api-keys/{provider} -> ApiKeyManager.delete_key
DeleteKey(provider) ==
    /\ provider \in api_keys
    /\ api_keys' = api_keys \ {provider}
    /\ UNCHANGED <<regVars, engVars, dlVars, fsVars, hwVars, cloudOp,
                   chatOut, callVars>>

\* InferenceEngine.generate_cloud for a row of the given provider; get_key
\* finds a key exactly when the table has one for the provider
GenerateCloud(provider, responses) ==
    /\ cloudOp' = CloudCall(provider \in api_keys, responses,
                            generate_cloud(provider \in api_keys, responses))
    /\ UNCHANGED <<regVars, engVars, dlVars, fsVars, hwVars, api_keys,
                   chatOut, callVars>>

\* single_chat lines 305-316 for a cloud row of the given provider: the call
\* of generate_cloud and what the handler answers its caller
CloudChat(provider, responses) ==
    /\ cloudOp' = CloudCall(provider \in api_keys, responses,
                            generate_cloud(provider \in api_keys, responses))
    /\ chatOut' = single_chat_cloud(
                      generate_cloud(provider \in api_keys, responses))
    /\ UNCHANGED <<regVars, engVars, dlVars, fsVars, hwVars, api_keys,
                   callVars>>

NextCloud ==
    \/ \E provider \in Providers : SaveKey(provider)
    \/ \E provider \in Providers : DeleteKey(provider)
    \/ \E provider \in Providers, first, second \in Statuses :
          GenerateCloud(provider, <<first, second>>)
    \/ \E provider \in Providers, first, second \in Statuses :
          CloudChat(provider, <<first, second>>)

SpecCloud == Init /\ [][NextCloud]_vars

\* --------------------------------------------- PolicyEngine, as component
\* the capabilities evaluate is exercised with: every vendor, VRAM unknown,
\* zero and on both sides of the cut points 4 and 8, available RAM on both
\* sides of 8 and 16, thread counts below, at and above the caps 2, 4, 8
AllCapabilities ==
    {SystemCapability(v, vram, ram, t) :
        v \in Vendors,
        vram \in {Unknown, 0, 399, 400, 799, 800, 1000},
        ram \in {600, 799, 800, 1599, 1600, 3200},
        t \in {1, 2, 4, 8, 16}}

\* policy_engine.evaluate(capability); keep: the observer remembers this
\* call to compare a later one with it
Evaluate(capability, keep) ==
    /\ policyOp' = PolicyCall(capability, evaluate(capability))
    /\ earlierOp' = IF keep THEN policyOp' ELSE earlierOp
    /\ UNCHANGED <<regVars, engVars, dlVars, fsVars, hwVars, cloudVars, detOp,
                   obsVars>>

NextPolicy ==
    \E capability \in AllCapabilities : Evaluate(capability, FALSE)

SpecPolicy == Init /\ [][NextPolicy]_vars

\* ------------------------------------------------------------------ Next
NextRegistry ==
    \/ \E id \in ModelIds, base \in BOOLEAN :
          Register(id, base, "local", "none", "llama.cpp", 1, stat_size_mb(1), "m")
    \/ \E id \in ModelIds : Remove(id)
    \/ \E id \in ModelIds : SetActiveCall(id)
    \/ \E id \in ModelIds, ok \in BOOLEAN : PullIntent(id, 1, ok)
    \/ \E p \in Procs : SetActiveUpdate(p)
    \/ \E p \in Procs : SetActiveFinish(p)
    \/ \E p \in Procs : SetActiveReturn(p)
    \/ SetupCheck
    \/ \E ok \in BOOLEAN : SetupPull(1, ok)
    \/ SetupMark

SpecRegistry == Init /\ [][NextRegistry]_vars

\* --------------------------------- InferenceEngine, called as a component
LoadModel(e, path, policy, id, ok) ==
    /\ loaded_models' =
          [loaded_models EXCEPT ![e] = load_model(@, path, policy, id, ok)]
    /\ lastOp' = Call("load", e, id, path, policy,
                      load_outcome(loaded_models[e], id, ok))
    /\ UNCHANGED <<regVars, reqs, system_model_id, dlVars>>
    /\ UNCHANGED <<fsVars, hwVars, cloudVars, callVars>>

UnloadModel(e, id) ==
    /\ loaded_models' = [loaded_models EXCEPT ![e] = unload_model(@, id)]
    /\ lastOp' = Call("unload", e, id, NoPath, NoPolicy,
                      IF is_loaded(loaded_models[e], id) THEN "unloaded"
                      ELSE "noop")
    /\ UNCHANGED <<regVars, reqs, system_model_id, dlVars>>
    /\ UNCHANGED <<fsVars, hwVars, cloudVars, callVars>>

Generate(e, id) ==
    /\ loaded_models' = [loaded_models EXCEPT ![e] = generate(@, id)]
    /\ lastOp' = Call("generate", e, id, NoPath, NoPolicy,
                      generate_outcome(loaded_models[e], id))
    /\ UNCHANGED <<regVars, reqs, system_model_id, dlVars>>
    /\ UNCHANGED <<fsVars, hwVars, cloudVars, callVars>>

\* generate called with its stream argument, the time the runtime takes
\* and the number of tokens it produces; for a streaming call the result is
\* the final event of the generator, consumed to its end
GenerateRequest(e, id, stream, elapsed, tokens) ==
    /\ loaded_models' = [loaded_models EXCEPT ![e] = generate(@, id)]
    /\ lastOp' = Call("generate", e, id, NoPath, NoPolicy,
                      generate_outcome(loaded_models[e], id))
    /\ genOut' = IF is_loaded(loaded_models[e], id)
                 THEN GenResult(stream, elapsed, tokens,
                                generate_metrics(stream, elapsed, tokens))
                 ELSE genOut
    /\ UNCHANGED <<regVars, reqs, system_model_id, dlVars>>
    /\ UNCHANGED <<fsVars, hwVars, cloudVars, polVars, detOp, probeOp, statusOp>>

NextMetrics ==
    \/ \E id \in ModelIds :
          LoadModel("chat", 1, Policy("cuda", 999, 4096, 4), id, TRUE)
    \/ \E id \in ModelIds : UnloadModel("chat", id)
    \/ \E id \in ModelIds, stream \in BOOLEAN, elapsed \in {0, 1, 2000},
           tokens \in {0, 1, 3} :
          GenerateRequest("chat", id, stream, elapsed, tokens)

SpecMetrics == Init /\ [][NextMetrics]_vars

\* ------------------------------------------- chat.py single_chat handler
LoadedAnywhere == UNION {DOMAIN loaded_models[e] : e \in Engines}

\* the request is accepted and waits for the event loop
ChatArrive(r, id) ==
    /\ reqs[r].st = "new"
    /\ reqs' = [reqs EXCEPT ![r] = Req("pending", id, LoadedAnywhere, None, "none")]
    /\ UNCHANGED <<regVars, loaded_models, lastOp, system_model_id, dlVars>>
    /\ UNCHANGED <<fsVars, hwVars, cloudVars, callVars>>

\* single_chat runs from line 81 to its return without suspending.
\*   okI      whether the Llama constructor succeeds inside classify
\* The policy of a load is evaluate(detect()) on the caller's own detector:
\* intents.py 65-66 inside classify, chat.py 320-321 in the chat route; the
\* chat detector is also asked at chat.py 90 (recommend) and 226 (onboarding).
\* and, chosen inside: sid, what _get_system_model_id returns (the cache, else
\* the first system row); said, the intent word the system model answers
\* with; okC, whether the constructor succeeds in the chat route; tgt, the
\* model the prompt names (switch_model, pull) and whether its download works
SingleChat(r, okI) ==
    /\ reqs[r].st = "pending"
    /\ pc["api"] = "idle"
    /\ wlock = NoProc
    /\ \E sid \in (IF system_model_id # None THEN {system_model_id}
                   ELSE IF SystemIds(models) # {} THEN SystemIds(models)
                   ELSE {None}) :
       LET canAsk  == sid # None /\ sid \in DOMAIN models
           needI   == canAsk /\ ~is_loaded(loaded_models["intent"], sid)
           capI    == detect(cached_capability["intent"], hardware, FALSE)
           policyI == evaluate(capI)
           capC    == detect(cached_capability["chat"], hardware, FALSE)
           policy  == evaluate(capC)
           \* the detector caches and the latest detection, given whether
           \* the chat detector is asked (detC)
           caches(detC) ==
               [cached_capability EXCEPT
                   !["intent"] = IF needI THEN capI ELSE @,
                   !["chat"] = IF detC THEN capC ELSE @]
           latest(detC) ==
               IF \/ needI /\ cached_capability["intent"] = NoCap
                  \/ detC /\ cached_capability["chat"] = NoCap
               THEN hardware ELSE last_detected
           intentT == IF canAsk
                      THEN load_model(loaded_models["intent"],
                                      models[sid].model_path, policyI, sid, okI)
                      ELSE loaded_models["intent"]
           asked   == canAsk /\ is_loaded(intentT, sid)
           mid     == reqs[r].model_id
       IN
       /\ system_model_id' = sid
       /\ \E said \in (IF asked THEN Intents ELSE {"chat"}) :
          \/ \* lines 213-348: normal conversation
             /\ said = "chat"
             /\ \E m \in (IF mid # None
                          THEN {IF mid \in DOMAIN models THEN mid ELSE None}
                          ELSE get_active_chat_model(models)) :
                LET local == m # None /\ models[m].backend # "cloud_api"
                    needC == local /\ ~is_loaded(loaded_models["chat"], m)
                IN
                \* an API endpoint is not a file the runtime can open
                \E okC \in (IF ~needC THEN {TRUE}
                             ELSE IF models[m].type = "cloud" THEN {FALSE}
                             ELSE BOOLEAN) :
                LET chatT == IF local
                             THEN load_model(loaded_models["chat"],
                                             models[m].model_path, policy, m, okC)
                             ELSE loaded_models["chat"]
                    res   == IF m = None
                             THEN (IF mid # None THEN "not_found" ELSE "onboarding")
                             ELSE IF ~local THEN "cloud"
                             ELSE IF ~is_loaded(chatT, m) THEN "load_failed"
                             ELSE "ok"
                    detC  == needC \/ (m = None /\ mid = None)
                IN
                /\ cached_capability' = caches(detC)
                /\ last_detected' = latest(detC)
                /\ loaded_models' = [loaded_models EXCEPT
                                        !["intent"] = intentT, !["chat"] = chatT]
                /\ reqs' = [reqs EXCEPT ![r] =
                               Req("done", mid, reqs[r].seen, m, res)]
                /\ lastOp' = IF res = "ok"
                             THEN Call("generate", "chat", m, NoPath, NoPolicy,
                                       generate_outcome(chatT, m))
                             ELSE IF res = "load_failed"
                             THEN Call("load", "chat", m, models[m].model_path,
                                       policy, "load_error")
                             ELSE IF asked
                             THEN Call("generate", "intent", sid, NoPath,
                                       NoPolicy, "ok")
                             ELSE IF canAsk
                             THEN Call("load", "intent", sid,
                                       models[sid].model_path, policyI, "load_error")
                             ELSE lastOp
             /\ UNCHANGED <<models, files>>
          \/ \* lines 86-210: the system intents
             /\ said # "chat"
             /\ cached_capability' = caches(said = "recommend")
             /\ last_detected' = latest(said = "recommend")
             /\ \/ /\ said \in {"recommend", "system_status", "model_list"}
                   /\ UNCHANGED <<models, files>>
                \/ /\ said = "switch_model"
                   /\ \E tgt \in DOMAIN models \cup {None} :
                         models' = set_active_model(models, tgt)
                   /\ UNCHANGED files
                \/ /\ said = "pull"
                   /\ \E tgt \in ModelIds, okPull \in BOOLEAN :
                         /\ models' = IF okPull
                                      THEN set_active_model(
                                              register_pulled(models, tgt, 1), tgt)
                                      ELSE models
                         /\ files' = IF okPull THEN files \cup {1} ELSE files
             /\ loaded_models' = [loaded_models EXCEPT !["intent"] = intentT]
             /\ reqs' = [reqs EXCEPT ![r] =
                            Req("done", mid, reqs[r].seen, None, "system")]
             /\ lastOp' = Call("generate", "intent", sid, NoPath, NoPolicy, "ok")
    /\ UNCHANGED <<pc, arg, ret, sess, wlock, lastSet, dlVars>>
    /\ UNCHANGED <<regOp, hardware, cloudVars, callVars>>

\* the machine changes under the running server (memory is taken or freed,
\* a GPU driver is installed): the next detection will report capability
HardwareChanges(capability) ==
    /\ hardware # capability
    /\ hardware' = capability
    /\ UNCHANGED <<regVars, engVars, dlVars, fsVars, cached_capability,
                   last_detected, cloudVars, callVars>>

\* POST /capability/refresh: detect(force_refresh=True) on system.py's
\* detector (the stored SystemProfile row is not read by any other handler)
RefreshCapability ==
    /\ cached_capability' = [cached_capability EXCEPT
          !["system"] = detect(@, hardware, TRUE)]
    /\ last_detected' = hardware
    /\ UNCHANGED <<regVars, engVars, dlVars, fsVars, hardware, cloudVars, callVars>>

\* InferenceEngine.get_loaded_models: the ids of the table it is asked on
get_loaded_models(table) == DOMAIN table

\* GET /status/full: the cached snapshot of system.py's detector, and the
\* loaded ids as reported by the InferenceEngine() the handler makes for the
\* call (system.py:139, 143), whose table is the empty one of __init__
GetSystemFullStatus ==
    /\ cached_capability' = [cached_capability EXCEPT
          !["system"] = detect(@, hardware, FALSE)]
    /\ last_detected' = IF cached_capability["system"] = NoCap
                        THEN hardware ELSE last_detected
    /\ statusOp' = StatusAnswer(TRUE, get_loaded_models(EmptyTable))
    /\ UNCHANGED <<regVars, engVars, dlVars, fsVars, hardware, cloudVars,
                   polVars, detOp, probeOp, genOut>>

\* detector d is asked for the capability: HardwareDetector.detect
Detect(d, force_refresh) ==
    /\ cached_capability' = [cached_capability EXCEPT
          ![d] = detect(@, hardware, force_refresh)]
    /\ detOp' = DetectCall(d, force_refresh,
                           detect(cached_capability[d], hardware, force_refresh))
    /\ last_detected' = IF cached_capability[d] = NoCap \/ force_refresh
                        THEN hardware ELSE last_detected
    /\ UNCHANGED <<regVars, engVars, dlVars, fsVars, hardware, cloudVars,
                   polVars, obsVars>>

\* the detectors of the server asked again and again, with and without
\* force_refresh, on a machine that changes
NextDetect ==
    \/ \E d \in Detectors, force_refresh \in BOOLEAN : Detect(d, force_refresh)
    \/ \E capability \in Capabilities : HardwareChanges(capability)

SpecDetect == Init /\ [][NextDetect]_vars

\* the probes of one detection run on a machine given by what psutil and
\* GPUtil answer; without GPUtil no probe asks it
Probe(available, answers, cores, threads) ==
    /\ probeOp' = ProbeRun(available, answers, cores, threads,
                           probe(available, answers, cores, threads))
    /\ UNCHANGED <<regVars, engVars, dlVars, fsVars, hwVars, cloudVars,
                   polVars, detOp, genOut, statusOp>>

NextProbe ==
    \/ \E answers \in [1..4 -> GpuAnswers], cores \in {0, 4}, threads \in {0, 8} :
          Probe(TRUE, answers, cores, threads)
    \/ \E cores \in {0, 4}, threads \in {0, 8} :
          Probe(FALSE, <<Raises, Raises, Raises, Raises>>, cores, threads)

SpecProbe == Init /\ [][NextProbe]_vars

\* POST /cloud -> ModelManager.add_cloud_model: type cloud, backend "api",
\* model_path the endpoint, size_mb left at its default
AddCloudModel(id) ==
    Register(id, FALSE, "cloud", "none", "api", ApiEndpoint, 0, "c")

NextChat ==
    \/ \E id \in ModelIds, role \in {"none", "system_intent"} :
          Register(id, FALSE, "local", role, "llama.cpp", 1, stat_size_mb(1), "m")
    \/ \E r \in Reqs, id \in ModelIds \cup {None} : ChatArrive(r, id)
    \/ \E r \in Reqs, okI \in BOOLEAN : SingleChat(r, okI)

SpecChat == Init /\ [][NextChat]_vars

\* the chat handler and the status endpoint, served by the same process
NextShared ==
    \/ \E id \in ModelIds, role \in {"none", "system_intent"} :
          Register(id, FALSE, "local", role, "llama.cpp", 1, stat_size_mb(1), "m")
    \/ \E r \in Reqs, id \in ModelIds \cup {None} : ChatArrive(r, id)
    \/ \E r \in Reqs, okI \in BOOLEAN : SingleChat(r, okI)
    \/ GetSystemFullStatus

SpecShared == Init /\ [][NextShared]_vars

\* routing of generation requests over local and cloud rows, with the
\* machine changing and the system interface refreshing the snapshot
NextRoute ==
    \/ \E id \in ModelIds :
          Register(id, FALSE, "local", "none", "llama.cpp", 1, stat_size_mb(1), "m")
    \/ \E id \in ModelIds : AddCloudModel(id)
    \/ \E id \in ModelIds :
          Register(id, FALSE, "cloud", "none", "cloud_api", ApiEndpoint, 0, "c")
    \/ \E r \in Reqs, id \in ModelIds \cup {None} : ChatArrive(r, id)
    \/ \E r \in Reqs, okI \in BOOLEAN : SingleChat(r, okI)
    \/ \E capability \in Capabilities : HardwareChanges(capability)
    \/ RefreshCapability

SpecRoute == Init /\ [][NextRoute]_vars

\* ------------------------------------- ModelManager.pull_model_stream
\* lines 256-308: token, metadata, the download is handed to the executor,
\* the first progress event is yielded
StreamStart(s, id) ==
    /\ streams[s].at = "new"
    /\ streams' = [streams EXCEPT ![s] = Stream("yield", id, <<"downloading">>)]
    /\ future' = [future EXCEPT ![s] = "running"]
    /\ stream_elapsed' = [stream_elapsed EXCEPT ![s] = 0]
    /\ progress' = [progress EXCEPT ![s] = <<0>>]
    /\ UNCHANGED <<regVars, engVars, cancel_flags>>
    /\ UNCHANGED <<fsVars, hwVars, cloudVars, callVars>>

\* the executor thread: hf_hub_download returns or raises (also after the
\* stream that started it has ended)
TransferEnds_Registers(s, outcome) ==
    /\ future[s] = "running"
    /\ future' = [future EXCEPT ![s] = outcome]
    /\ files' = IF outcome = "ok" THEN files \cup {1} ELSE files
    /\ models' = IF outcome = "ok"
                 THEN register_pulled(models, streams[s].model_id, 1)
                 ELSE models
    /\ UNCHANGED <<pc, arg, ret, sess, wlock, lastSet, engVars, cancel_flags,
                   streams, stream_elapsed, progress>>
    /\ UNCHANGED <<regOp, hwVars, cloudVars, callVars>>
TransferEnds(s, outcome) ==
    /\ future[s] = "running"
    /\ future' = [future EXCEPT ![s] = outcome]
    /\ files' = IF outcome = "ok" THEN files \cup {1} ELSE files
    /\ UNCHANGED <<regVars, engVars, cancel_flags, streams, stream_elapsed, progress>>
    /\ UNCHANGED <<regOp, hwVars, cloudVars, callVars>>

\* POST /pull/cancel -> ModelManager.cancel_download
Cancel(id) ==
    /\ cancel_flags' = cancel_flags \cup {id}
    /\ UNCHANGED <<regVars, engVars, streams, future, stream_elapsed, progress>>
    /\ UNCHANGED <<fsVars, hwVars, cloudVars, callVars>>

\* the consumer resumes the generator after a downloading event; the code
\* runs to the next suspension:
\*   314      transfer still running?
\*   315-319  cancel flag set: yield the cancellation event
\*   323      otherwise sleep one poll interval
\*   338-365  transfer finished: register and yield complete, or yield error
StreamPoll(s) ==
    LET st == streams[s] IN
    /\ st.at = "yield"
    /\ IF future[s] = "running"
       THEN /\ streams' = [streams EXCEPT ![s] =
                  IF st.model_id \in cancel_flags
                  THEN Stream("cancelled", st.model_id,
                              Append(st.events, "cancelled"))
                  ELSE Stream("sleep", st.model_id, st.events)]
            /\ progress' = [progress EXCEPT ![s] =
                  IF st.model_id \in cancel_flags THEN Append(@, Absent) ELSE @]
            /\ UNCHANGED models
       ELSE IF future[s] = "ok"
       THEN /\ wlock = NoProc
            /\ models' = register_pulled(models, st.model_id, 1)
            /\ streams' = [streams EXCEPT ![s] =
                  Stream("finally", st.model_id, Append(st.events, "complete"))]
            /\ progress' = [progress EXCEPT ![s] = Append(@, 100)]
       ELSE /\ streams' = [streams EXCEPT ![s] =
                  Stream("finally", st.model_id,
                         Append(st.events, ErrorEvent(future[s])))]
            /\ progress' = [progress EXCEPT ![s] = Append(@, Absent)]
            /\ UNCHANGED models
    /\ UNCHANGED <<pc, arg, ret, sess, wlock, lastSet, engVars, cancel_flags,
                   future, stream_elapsed>>
    /\ UNCHANGED <<fsVars, hwVars, cloudVars, callVars>>

\* line 326: fake_progress = min(90, int(elapsed * 1.5)), the elapsed time
\* in tenths of a second
fake_progress(t) == Min(90, (t * 15) \div 100)

\* lines 323-336: the sleep of half a second is over, t is the time since
\* the stream started, the next progress event is yielded
StreamWake(s, t) ==
    LET st == streams[s] IN
    /\ st.at = "sleep"
    /\ Polls(st) < MaxPolls
    /\ t >= stream_elapsed[s] + 5
    /\ stream_elapsed' = [stream_elapsed EXCEPT ![s] = t]
    /\ streams' = [streams EXCEPT ![s] =
          Stream("yield", st.model_id, Append(st.events, "downloading"))]
    /\ progress' = [progress EXCEPT ![s] = Append(@, fake_progress(t))]
    /\ UNCHANGED <<regVars, engVars, cancel_flags, future>>
    /\ UNCHANGED <<fsVars, hwVars, cloudVars, callVars>>

\* the consumer resumes the generator after the cancellation event:
\* line 320 deletes the flag and line 321 returns; when the key is gone the
\* del raises KeyError, which event_generator turns into an error line
StreamAfterCancelled(s) ==
    LET st == streams[s] IN
    /\ st.at = "cancelled"
    /\ IF st.model_id \in cancel_flags
       THEN /\ cancel_flags' = cancel_flags \ {st.model_id}
            /\ streams' = [streams EXCEPT ![s] =
                  Stream(AfterCancelled, st.model_id, st.events)]
            /\ UNCHANGED progress
       ELSE /\ streams' = [streams EXCEPT ![s] =
                  Stream("done", st.model_id, Append(st.events, "wrapper_error"))]
            /\ progress' = [progress EXCEPT ![s] = Append(@, Absent)]
            /\ UNCHANGED cancel_flags
    /\ UNCHANGED <<regVars, engVars, future, stream_elapsed>>
    /\ UNCHANGED <<fsVars, hwVars, cloudVars, callVars>>

\* the consumer resumes the generator after complete or error:
\* lines 366-368, the finally clause drops the flag if it is there
StreamFinally(s) ==
    LET st == streams[s] IN
    /\ st.at = "finally"
    /\ cancel_flags' = cancel_flags \ {st.model_id}
    /\ streams' = [streams EXCEPT ![s] = Stream("done", st.model_id, st.events)]
    /\ UNCHANGED <<regVars, engVars, future, stream_elapsed, progress>>
    /\ UNCHANGED <<fsVars, hwVars, cloudVars, callVars>>

NextStream ==
    \/ \E s \in Streams, id \in ModelIds : StreamStart(s, id)
    \/ \E s \in Streams, outcome \in {"ok", "http_401", "http_404"} :
          TransferEnds(s, outcome)
    \/ \E id \in ModelIds : Cancel(id)
    \/ \E s \in Streams : StreamPoll(s)
    \/ \E s \in Streams, t \in {5, 600, 1000} : StreamWake(s, t)
    \/ \E s \in Streams : StreamAfterCancelled(s)
    \/ \E s \in Streams : StreamFinally(s)

SpecStream == Init /\ [][NextStream]_vars

\* POST /pull -> ModelManager.pull_huggingface_model: download, measure,
\* register; path is where hf_hub_download stored the file
PullModel(id, path, outcome) ==
    /\ pc["api"] = "idle"
    /\ wlock = NoProc
    /\ models' = IF outcome = "ok" THEN register_pulled(models, id, path)
                 ELSE models
    /\ files' = IF outcome = "ok" THEN files \cup {path} ELSE files
    /\ regOp' = RegCall("pull", id, pull_result(outcome), <<>>)
    /\ UNCHANGED <<pc, arg, ret, sess, wlock, lastSet, engVars, dlVars,
                   hwVars, cloudVars, callVars>>

\* a file is put at path from outside the server (copied by the user, left
\* by an earlier download); only files some row names are followed
CreateFile(path) ==
    /\ path \notin files
    /\ \E m \in DOMAIN models : models[m].model_path = path
    /\ files' = files \cup {path}
    /\ UNCHANGED <<regVars, engVars, dlVars, regOp, hwVars, cloudVars, callVars>>

\* POST /register with the body of a RegisterModelRequest: a local row on
\* llama.cpp with an artifact path, or a cloud row on "api" with its
\* endpoint; base models are named "b", others "m"
RegisterRequest(id, base, path) ==
    IF path \in Paths
    THEN Register(id, base, "local", "none", "llama.cpp", path,
                  stat_size_mb(path), IF base THEN "b" ELSE "m")
    ELSE Register(id, base, "cloud", "none", "api", path, 0,
                  IF base THEN "b" ELSE "m")

\* POST /active/{model_id} while the api process is the only writer
SetActive(id) ==
    /\ pc["api"] = "idle"
    /\ wlock = NoProc
    /\ models' = set_active_model(models, id)
    /\ lastSet' = IF id \in DOMAIN models THEN id ELSE lastSet
    /\ UNCHANGED <<pc, arg, ret, sess, wlock, engVars, dlVars, fsVars, hwVars,
                   cloudVars, callVars>>

\* ModelManager.get_active_chat_model called by a handler: result is the
\* id of the row it returns, None when it returns nothing; with several
\* active rows first() takes whichever the database yields first
GetActiveChatModel(result) ==
    /\ result \in get_active_chat_model(models)
    /\ regOp' = RegCall("get_active_chat", result,
                        IF result = None THEN "none" ELSE "found", <<>>)
    /\ UNCHANGED <<regVars, engVars, dlVars, files, hwVars, cloudVars, callVars>>

\* the active chat model asked for while chat and system models are
\* registered and activated and setup.py installs the base model
NextActive ==
    \/ \E id \in ModelIds, role \in {"none", "system_intent"} :
          Register(id, FALSE, "local", role, "llama.cpp", 1, stat_size_mb(1), "m")
    \/ \E id \in ModelIds : SetActive(id)
    \/ SetupCheck
    \/ \E ok \in BOOLEAN : SetupPull(1, ok)
    \/ SetupMark
    \/ SetActiveUpdate("setup")
    \/ SetActiveFinish("setup")
    \/ SetActiveReturn("setup")
    \/ \E result \in ModelIds \cup {BaseId, None} : GetActiveChatModel(result)

SpecActive == Init /\ [][NextActive]_vars

\* the registry operations of the api process on rows of every kind
NextManager ==
    \/ \E id \in ModelIds, base \in BOOLEAN, path \in Paths \cup {ApiEndpoint} :
          RegisterRequest(id, base, path)
    \/ \E id \in ModelIds : Remove(id)
    \/ \E path \in Paths : CreateFile(path)
    \/ \E id \in ModelIds : SetActive(id)

SpecManager == Init /\ [][NextManager]_vars

\* evaluate called again and again while the registry, the loaded handles,
\* the machine and the cached snapshot change in between
NextResolve ==
    \/ \E capability \in Capabilities, keep \in BOOLEAN :
          Evaluate(capability, keep)
    \/ \E id \in ModelIds :
          Register(id, FALSE, "local", "none", "llama.cpp", 1, stat_size_mb(1), "m")
    \/ \E id \in ModelIds : SetActive(id)
    \/ \E id \in ModelIds :
          LoadModel("chat", 1, Policy("cuda", 999, 4096, 4), id, TRUE)
    \/ \E id \in ModelIds : UnloadModel("chat", id)
    \/ \E capability \in Capabilities : HardwareChanges(capability)
    \/ RefreshCapability

SpecResolve == Init /\ [][NextResolve]_vars

\* the engine of the chat route used while records are registered, made
\* active and removed and cloud generations run
NextResident ==
    \/ \E id \in ModelIds, ok \in BOOLEAN :
          LoadModel("chat", 1, Policy("cuda", 999, 4096, 4), id, ok)
    \/ \E id \in ModelIds : UnloadModel("chat", id)
    \/ \E id \in ModelIds : Generate("chat", id)
    \/ \E id \in ModelIds :
          Register(id, FALSE, "local", "none", "llama.cpp", 1, stat_size_mb(1), "m")
    \/ \E id \in ModelIds : Remove(id)
    \/ \E id \in ModelIds : SetActive(id)
    \/ SaveKey("openai")
    \/ GenerateCloud("openai", <<200, 200>>)

SpecResident == Init /\ [][NextResident]_vars

\* both fetch variants over a registry that may already hold the id, then
\* registered by hand on another artifact than the one the hub delivers;
\* one progress stream is followed (several at once: SpecStream)
NextFetch ==
    \/ \E id \in ModelIds :
          Register(id, FALSE, "local", "none", "llama.cpp", 2,
                   stat_size_mb(2), "m")
    \/ \E id \in ModelIds, outcome \in Outcomes : PullModel(id, 1, outcome)
    \/ \E id \in ModelIds : StreamStart(1, id)
    \/ \E s \in Streams, outcome \in Outcomes : TransferEnds(s, outcome)
    \/ \E s \in Streams : StreamPoll(s)
    \/ \E s \in Streams : StreamWake(s, 5)
    \/ \E s \in Streams : StreamFinally(s)

SpecFetch == Init /\ [][NextFetch]_vars

\* pull-intent / pull-custom next to a progress stream and to setup.py: the
\* handler has no await between pull_huggingface_model and set_active_model,
\* so the event loop resumes no generator inside it; the transfer runs on an
\* executor thread and setup.py is another process
NextPull ==
    \/ \E id \in ModelIds, ok \in BOOLEAN : PullIntent(id, 1, ok)
    \/ \E p \in Procs : SetActiveUpdate(p)
    \/ \E p \in Procs : SetActiveFinish(p)
    \/ \E p \in Procs : SetActiveReturn(p)
    \/ SetupCheck
    \/ \E ok \in BOOLEAN : SetupPull(1, ok)
    \/ SetupMark
    \/ \E id \in ModelIds : pc["api"] = "idle" /\ StreamStart(1, id)
    \/ \E outcome \in {"ok", "http_404"} : TransferEnds(1, outcome)
    \/ pc["api"] = "idle" /\ StreamPoll(1)
    \/ pc["api"] = "idle" /\ StreamWake(1, 5)
    \/ pc["api"] = "idle" /\ StreamFinally(1)

SpecPull == Init /\ [][NextPull]_vars

\* the component is exercised on one instance; the instances share no state
NextEngine ==
    \/ \E path \in Paths, policy \in Policies, id \in ModelIds, ok \in BOOLEAN :
          LoadModel("chat", path, policy, id, ok)
    \/ \E id \in ModelIds : UnloadModel("chat", id)
    \/ \E id \in ModelIds : Generate("chat", id)

SpecEngine == Init /\ [][NextEngine]_vars


\* ============================================================ claims C1-C3
\* C1: in every reachable state of the registry at most one row has
\* is_active = TRUE.
C1_AtMostOneActive == Cardinality(ActiveIds(models)) <= 1

\* steps of set_active_model taken by process p
SaUpdateStep(p) == pc[p] = "sa_call" /\ pc'[p] = "sa_update"
SaFinishStep(p) == pc[p] = "sa_update" /\ pc'[p] = "sa_ret"

\* C2: when set_active_model(X) returns True for a registered X the only
\* active row is X (so get_active_model returns X); no statement of
\* set_active_model makes a state with two active rows visible to readers;
\* once two overlapping calls have both returned True the single active row
\* is the target of the call that committed last.
C2_SetActiveAtomic ==
    /\ [][\A p \in Procs :
            /\ (SaFinishStep(p) /\ ret'[p]) =>
                   /\ arg[p] \in DOMAIN models
                   /\ get_active_model(models') = {arg[p]}
            /\ (SaUpdateStep(p) \/ SaFinishStep(p)) =>
                   (models' = models \/ Cardinality(ActiveIds(models')) = 1)
         ]_vars
    /\ []((\A p \in Procs : pc[p] = "sa_ret" /\ ret[p]) =>
            /\ ActiveIds(models) = {lastSet}
            /\ \E p \in Procs : arg[p] = lastSet)

\* two overlapping calls with distinct registered targets have both returned
C2_Witness ==
    /\ \A p \in Procs : pc[p] = "sa_ret" /\ ret[p]
    /\ arg["api"] # arg["setup"]
    /\ get_active_model(models) = {lastSet}

\* C3: set_active_model(id) with an id that has no row returns False and the
\* committed table is the same before and after every statement of the call.
C3_UnknownIdNoChange ==
    [][\A p \in Procs :
          /\ (SaFinishStep(p) /\ arg[p] \notin DOMAIN models) =>
                 (~ret'[p] /\ models' = models)
          /\ (SaUpdateStep(p) /\ arg[p] \notin DOMAIN models) =>
                 models' = models
      ]_vars

\* an unknown id was refused while another row was, and still is, active
C3_Witness ==
    \E p \in Procs :
        /\ pc[p] = "sa_ret" /\ ~ret[p]
        /\ arg[p] \notin DOMAIN models
        /\ ActiveIds(models) # {}

\* ================================================================ claim C4
\* runtime handles that exist for an id (no caller ever unloads, so this is
\* also the number constructed)
HandleCount(id) == Cardinality({e \in Engines : is_loaded(loaded_models[e], id)})

\* C4: when two requests for the same model id were both accepted while the
\* id was unloaded, and no constructor failed, both succeed and exactly one
\* runtime handle has been constructed for the id.
C4_OneHandleForConcurrentLoads ==
    \A r1 \in Reqs, r2 \in Reqs :
        (/\ r1 # r2
         /\ reqs[r1].st = "done" /\ reqs[r2].st = "done"
         /\ reqs[r1].used # None /\ reqs[r1].used = reqs[r2].used
         /\ reqs[r1].used \notin reqs[r1].seen \cup reqs[r2].seen
         /\ reqs[r1].result # "load_failed" /\ reqs[r2].result # "load_failed")
        => /\ reqs[r1].result = "ok" /\ reqs[r2].result = "ok"
           /\ HandleCount(reqs[r1].used) = 1

\* ============================================================ claims C5-C8
LoadedIds(e) == DOMAIN loaded_models[e]

\* C5: load_model on an id that is already loaded constructs nothing and
\* leaves the stored handle (and the whole table) as it was, whatever path
\* and policy the call passes.
C5_LoadIdempotent ==
    [][\A e \in Engines, path \in Paths, policy \in Policies,
          id \in ModelIds, ok \in BOOLEAN :
          (LoadModel(e, path, policy, id, ok) /\ is_loaded(loaded_models[e], id))
          => /\ loaded_models' = loaded_models
             /\ lastOp'.outcome = "noop"
      ]_vars

\* a load was a no-op although it named another path or policy than the
\* ones the stored handle was built from
C5_Witness ==
    /\ lastOp.op = "load" /\ lastOp.outcome = "noop"
    /\ is_loaded(loaded_models[lastOp.e], lastOp.id)
    /\ loaded_models[lastOp.e][lastOp.id] # Llama(lastOp.path, lastOp.policy)

\* C6: per id the load state follows Unloaded -> Loaded -> Unloaded: after a
\* load the id is loaded iff it was loaded before or the construction
\* succeeded, after an unload it is not loaded, unload of an unloaded id
\* changes nothing, generate never changes the load state, and no call on one
\* id changes whether (or with which handle) another id is loaded.
C6_LoadStateMachine ==
    [][\A e \in Engines, id \in ModelIds :
          /\ \A path \in Paths, policy \in Policies, ok \in BOOLEAN :
                LoadModel(e, path, policy, id, ok) =>
                   /\ is_loaded(loaded_models'[e], id)
                         <=> (is_loaded(loaded_models[e], id) \/ ok)
                   /\ \A m \in ModelIds \ {id} :
                         /\ is_loaded(loaded_models'[e], m)
                               <=> is_loaded(loaded_models[e], m)
                         /\ is_loaded(loaded_models[e], m)
                               => loaded_models'[e][m] = loaded_models[e][m]
          /\ UnloadModel(e, id) =>
                /\ ~is_loaded(loaded_models'[e], id)
                /\ ~is_loaded(loaded_models[e], id)
                      => loaded_models' = loaded_models
                /\ \A m \in ModelIds \ {id} :
                      /\ is_loaded(loaded_models'[e], m)
                            <=> is_loaded(loaded_models[e], m)
                      /\ is_loaded(loaded_models[e], m)
                            => loaded_models'[e][m] = loaded_models[e][m]
          /\ Generate(e, id) => LoadedIds(e)' = LoadedIds(e)
      ]_vars

\* a loaded id was unloaded while another id stayed loaded
C6_Witness ==
    /\ lastOp.op = "unload" /\ lastOp.outcome = "unloaded"
    /\ ~is_loaded(loaded_models[lastOp.e], lastOp.id)
    /\ LoadedIds(lastOp.e) # {}

\* C7: generate on an id that is not loaded fails with "model not loaded"
\* and constructs nothing: the table of loaded handles is unchanged.
C7_GenerateNotLoaded ==
    [][\A e \in Engines, id \in ModelIds :
          (Generate(e, id) /\ ~is_loaded(loaded_models[e], id))
          => /\ lastOp'.outcome = "not_loaded"
             /\ loaded_models' = loaded_models
      ]_vars

\* generate was refused for an id that is still not loaded
C7_Witness ==
    /\ lastOp.op = "generate" /\ lastOp.outcome = "not_loaded"
    /\ ~is_loaded(loaded_models[lastOp.e], lastOp.id)

\* C8: when the constructor fails the caller gets the load error, the table
\* is unchanged and the id is still unloaded; the next load of that id does
\* not take the already-loaded shortcut, it constructs again.
C8_FailedLoadLeavesUnloaded ==
    [][\A e \in Engines, path \in Paths, policy \in Policies, id \in ModelIds :
          /\ (LoadModel(e, path, policy, id, FALSE)
                /\ ~is_loaded(loaded_models[e], id))
             => /\ lastOp'.outcome = "load_error"
                /\ loaded_models' = loaded_models
                /\ ~is_loaded(loaded_models'[e], id)
          /\ \A ok \in BOOLEAN :
                (/\ lastOp.op = "load" /\ lastOp.outcome = "load_error"
                 /\ lastOp.e = e /\ lastOp.id = id
                 /\ LoadModel(e, path, policy, id, ok))
                => lastOp'.outcome = IF ok THEN "constructed" ELSE "load_error"
      ]_vars

\* a load that failed was followed by one that constructed the handle
C8_Witness ==
    /\ lastOp.op = "load" /\ lastOp.outcome = "load_error"
    /\ ~is_loaded(loaded_models[lastOp.e], lastOp.id)
    /\ LoadedIds(lastOp.e) # {}

\* =========================================================== claims C9-C10
TerminalCount(evs) == Len(SelectSeq(evs, Terminal))

\* C9: a progress stream that was consumed to its end delivered exactly one
\* terminal event, and that event is the last one.
C9_ExactlyOneTerminal ==
    \A s \in Streams :
        streams[s].at = "done" =>
            /\ TerminalCount(streams[s].events) = 1
            /\ Terminal(streams[s].events[Len(streams[s].events)])

InFlight(s) == IF future[s] = "running" THEN {streams[s].model_id} ELSE {}

\* C11: no two fetch jobs are in flight for the same model id: two streams
\* whose transfers are both running work on different ids.
C11_OneJobPerId ==
    \A s1 \in Streams, s2 \in Streams :
        s1 # s2 => InFlight(s1) \cap InFlight(s2) = {}

\* ================================================================ claim C12
\* stream s emits its complete event in this step
Completes(s) == streams'[s].events = Append(streams[s].events, "complete")

\* the row of id after a fetch that stored its file at path: a row that was
\* there before is left as it was, a new row carries the path and the size
\* measured on the file
RegisteredByFetch(id, path) ==
    /\ id \in DOMAIN models'
    /\ IF id \in DOMAIN models
       THEN models'[id] = models[id]
       ELSE /\ models'[id].model_path = path
            /\ models'[id].size_mb = stat_size_mb(path)

\* the row of id after the fetch carries the fetched path and measured size
MeasuredByFetch(id, path) ==
    /\ id \in DOMAIN models'
    /\ models'[id].model_path = path
    /\ models'[id].size_mb = stat_size_mb(path)

\* C12 (as amended): whenever a fetch succeeds for an id, the registry holds
\* a row for the id in the state in which the success is delivered (the
\* blocking call returns, the stream emits complete); a row created by the
\* fetch has the fetched path and the size measured on the file, a row that
\* existed before the fetch registered is unchanged.
C12_FetchRegisters ==
    [][/\ \A id \in ModelIds, path \in Paths :
             (/\ regOp'.op = "pull" /\ regOp'.id = id
              /\ PullModel(id, path, "ok")) => RegisteredByFetch(id, path)
       /\ \A s \in Streams :
             Completes(s) => RegisteredByFetch(streams[s].model_id, 1)
      ]_vars

\* C12 (as stated): whenever a fetch succeeds for an id, the registry holds a
\* row for the id whose path and size are those measured on the fetched file.
C12_FetchRecordIsMeasured ==
    [][/\ \A id \in ModelIds, path \in Paths :
             (/\ regOp'.op = "pull" /\ regOp'.id = id
              /\ PullModel(id, path, "ok")) => MeasuredByFetch(id, path)
       /\ \A s \in Streams :
             Completes(s) => MeasuredByFetch(streams[s].model_id, 1)
      ]_vars

\* a stream has delivered complete for an id the fetch itself registered,
\* and a blocking pull has succeeded
C12_Witness ==
    /\ regOp.op = "pull" /\ regOp.result = "ok"
    /\ \E s \in Streams :
          LET evs == streams[s].events IN
          /\ Len(evs) > 0 /\ evs[Len(evs)] = "complete"
          /\ streams[s].model_id \in DOMAIN models
          /\ models[streams[s].model_id].name = "hf"
          /\ streams[s].model_id # regOp.id

\* ================================================================ claim C13
\* the condition a failed transfer has to surface as
Surfaced(outcome) ==
    IF HttpStatus(outcome) \in {401, 403} THEN "auth_error" ELSE "error"

\* stream s learns in this step that its transfer failed
StreamFails(s) ==
    /\ streams[s].at = "yield" /\ streams'[s].at = "finally"
    /\ future[s] # "ok"

\* C13: a transfer that fails with HTTP 401 or 403 surfaces as the
\* authentication condition in both fetch variants, every other failure as
\* the generic error, and a failed fetch registers nothing.
C13_AuthDistinguished ==
    [][/\ \A id \in ModelIds, path \in Paths, outcome \in Outcomes \ {"ok"} :
             PullModel(id, path, outcome) =>
                /\ regOp'.result = Surfaced(outcome)
                /\ models' = models
       /\ \A s \in Streams :
             StreamFails(s) =>
                /\ streams'[s].events =
                      Append(streams[s].events, Surfaced(future[s]))
                /\ models' = models
      ]_vars

\* ================================================================ claim C14
\* C14: remove_model on a row with is_base_model = TRUE raises the
\* invalid-state error and changes nothing: the table (so the row and its
\* is_active flag) and the files on disk are as before.
C14_BaseModelProtected ==
    [][\A id \in ModelIds :
          (/\ id \in DOMAIN models /\ models[id].is_base_model
           /\ regOp'.op = "remove" /\ regOp'.id = id
           /\ Remove(id))
          => /\ regOp'.result = "invalid_state"
             /\ models' = models
             /\ files' = files
      ]_vars

\* the removal of an active local base model, whose artifact is on disk, was
\* refused
C14_Witness ==
    /\ regOp.op = "remove" /\ regOp.result = "invalid_state"
    /\ regOp.id \in DOMAIN models
    /\ models[regOp.id].is_base_model /\ models[regOp.id].is_active
    /\ models[regOp.id].type = "local"
    /\ models[regOp.id].model_path \in files

\* ================================================================ claim C15
\* C15: registering an id that has a row returns that row and leaves the
\* whole table as it was, whatever the call supplies; registering a new id
\* adds exactly one row, inactive, with the supplied values.
C15_RegisterIdempotent ==
    [][\A id \in ModelIds :
          (regOp'.op = "register" /\ regOp'.id = id) =>
             IF id \in DOMAIN models
             THEN (\E base \in BOOLEAN, path \in Paths \cup {ApiEndpoint} :
                      RegisterRequest(id, base, path))
                  => /\ models' = models
                     /\ regOp'.result = "existing"
             ELSE \A base \in BOOLEAN, path \in Paths \cup {ApiEndpoint} :
                     (id \in DOMAIN models' /\ RegisterRequest(id, base, path))
                     => /\ DOMAIN models' = DOMAIN models \cup {id}
                        /\ \A m \in DOMAIN models : models'[m] = models[m]
                        /\ ~models'[id].is_active
                        /\ models'[id].is_base_model = base
                        /\ models'[id].type =
                              IF path \in Paths THEN "local" ELSE "cloud"
                        /\ models'[id].model_path = path
                        /\ regOp'.result = "created"
      ]_vars

\* a second registration found the id taken; the row is still the active
\* one, which no fresh registration is
C15_Witness ==
    /\ regOp.op = "register" /\ regOp.result = "existing"
    /\ regOp.id \in DOMAIN models
    /\ models[regOp.id].is_active
    /\ Cardinality(DOMAIN models) > 1

\* ================================================================ claim C16
\* C16: remove_model on a row that is not a base model returns True, the
\* row is gone (get_model finds nothing, list_models omits it) and a local
\* row's artifact is unlinked before the row is deleted; on an unknown id it
\* returns False and table and files are unchanged; no other row changes.
C16_RemoveDeletes ==
    [][\A id \in ModelIds :
          (regOp'.op = "remove" /\ regOp'.id = id /\ Remove(id)) =>
             /\ id \notin DOMAIN models =>
                   /\ regOp'.result = "false"
                   /\ models' = models /\ files' = files
             /\ (id \in DOMAIN models /\ ~models[id].is_base_model) =>
                   /\ regOp'.result = "true"
                   /\ id \notin DOMAIN models'
                   /\ IF models[id].type = "local" /\ models[id].model_path \in files
                      THEN /\ files' = files \ {models[id].model_path}
                           /\ regOp'.effects = <<"unlink", "delete_row">>
                      ELSE /\ files' = files
                           /\ regOp'.effects = <<"delete_row">>
             /\ \A m \in DOMAIN models \ {id} :
                   m \in DOMAIN models' /\ models'[m] = models[m]
      ]_vars

\* a local row was removed together with its artifact while another row,
\* registered on the same path, stayed
C16_Witness ==
    /\ regOp.op = "remove" /\ regOp.result = "true"
    /\ regOp.effects = <<"unlink", "delete_row">>
    /\ regOp.id \notin DOMAIN models
    /\ models # EmptyTable

\* ================================================================ claim C17
\* the row a finished generation request was served from
UsedRow(r) == models[reqs[r].used]

\* a finished request that resolved to a row of kind cloud
ForCloudRow(r) ==
    /\ reqs[r].st = "done"
    /\ reqs[r].used # None
    /\ reqs[r].used \in DOMAIN models
    /\ UsedRow(r).type = "cloud"

\* C17: a generation request for a row of kind cloud, add_cloud_model's rows
\* included, is dispatched to generate_cloud; load_model and generate are
\* never called for such a row and it gets no handle in any engine.
C17_CloudRowsGoToCloud ==
    /\ \A r \in Reqs : ForCloudRow(r) => reqs[r].result = "cloud"
    /\ (lastOp.op \in {"load", "generate"} /\ lastOp.id \in DOMAIN models)
          => models[lastOp.id].type # "cloud"
    /\ \A e \in Engines : \A m \in DOMAIN loaded_models[e] :
          m \in DOMAIN models => models[m].type # "cloud"

\* ================================================================ claim C18
\* request r is finished by this step from a local row
ServedLocally(r) ==
    /\ reqs[r].st = "pending"
    /\ reqs'[r].st = "done"
    /\ reqs'[r].result \in {"ok", "load_failed"}

\* C18: a request routed to a local row loads the id before generating
\* exactly when it is not loaded and leaves a loaded id's handle alone; the
\* policy of that load is evaluate of the snapshot the most recent hardware
\* detection produced, a forced refresh through POST /capability/refresh
\* included.
C18_LoadOnDemandWithCurrentPolicy ==
    [][\A r \in Reqs :
          ServedLocally(r) =>
             LET m == reqs'[r].used
                 current == evaluate(last_detected')
             IN  IF is_loaded(loaded_models["chat"], m)
                 THEN /\ loaded_models'["chat"][m] = loaded_models["chat"][m]
                      /\ reqs'[r].result = "ok"
                 ELSE IF reqs'[r].result = "ok"
                 THEN loaded_models'["chat"][m] =
                         Llama(models[m].model_path, current)
                 ELSE /\ lastOp'.op = "load" /\ lastOp'.id = m
                      /\ lastOp'.policy = current
      ]_vars

\* ================================================================ claim C19
\* C19: generate_cloud surfaces a provider answer of 401 as the invalid-key
\* condition, 429 as rate-limited and every other failure status as the
\* generic provider error; it invokes the provider client at most once
\* per call, so what the provider would answer to a second request never
\* matters, and without a stored key it fails without invoking the client.
C19_CloudFailureMapping ==
    LET first == cloudOp.responses[1]
        result == cloudOp.result
    IN  cloudOp # NoCloudCall =>
           /\ result.invocations <= 1
           /\ ~cloudOp.has_key =>
                 /\ result.outcome = "no_key"
                 /\ result.invocations = 0
           /\ cloudOp.has_key =>
                 /\ result.invocations = 1
                 /\ first = 200 => result.outcome = "ok"
                 /\ first = 401 => result.outcome = "invalid_key"
                 /\ first = 429 => result.outcome = "rate_limited"
                 /\ first \notin {200, 401, 429} =>
                       result.outcome = "provider_error"

\* a call with a stored key was answered 429 and surfaced rate-limited
\* after one invocation, though a second request would have succeeded
C19_Witness ==
    /\ cloudOp.has_key
    /\ cloudOp.responses = <<429, 200>>
    /\ cloudOp.result = CloudResult("rate_limited", 1)

\* ================================================================ claim C20
\* C20: when load_model constructs a handle, the GPU layer count given to
\* the runtime is policy.gpu_layers if policy.backend is cuda and 0 for
\* every other backend, and the context length and the thread count are
\* policy.max_context_length and policy.max_threads.
C20_HandleArguments ==
    (lastOp.op = "load" /\ lastOp.outcome = "constructed") =>
       LET h == loaded_models[lastOp.e][lastOp.id]
           policy == lastOp.policy
       IN  /\ policy.backend = "cuda" => h.n_gpu_layers = policy.gpu_layers
           /\ policy.backend # "cuda" => h.n_gpu_layers = 0
           /\ h.n_ctx = policy.max_context_length
           /\ h.n_threads = policy.max_threads

\* a handle was constructed under a policy that is not cuda and asks for
\* GPU layers, and another under the cuda policy
C20_Witness ==
    /\ lastOp.op = "load" /\ lastOp.outcome = "constructed"
    /\ lastOp.policy.backend = "metal" /\ lastOp.policy.gpu_layers > 0
    /\ \E m \in DOMAIN loaded_models[lastOp.e] :
          loaded_models[lastOp.e][m].n_gpu_layers = 999

\* ================================================================ claim C21
\* C21: evaluate returns backend cuda exactly when gpu_vendor is nvidia and
\* gpu_vram_gb is known (any reported value from 0 upward); amd and intel
\* give cpu whatever their VRAM, every other capability gives cpu; the
\* backend is never metal or onnx_gpu.
C21_BackendSelection ==
    LET capability == policyOp.capability
        backend == policyOp.policy.backend
    IN  policyOp # NoPolicyCall =>
           /\ backend = "cuda" <=>
                 (/\ capability.gpu_vendor = "nvidia"
                  /\ capability.gpu_vram_gb # Unknown)
           /\ capability.gpu_vendor \in {"amd", "intel"} => backend = "cpu"
           /\ backend \in {"cuda", "cpu"}

\* ================================================================ claim C22
\* C22: a cuda policy has its tier by exact cut points: VRAM >= 8 gives no
\* quantization, 999 GPU layers, context 4096, batch 8; 4 <= VRAM < 8 gives
\* 8-bit quantization, 20 layers, context 2048, batch 4; VRAM < 4 gives
\* 4-bit quantization, 10 layers, context 2048, batch 2; exactly 8 is in
\* the first tier and exactly 4 in the second; max_threads is the detected
\* thread count in every tier.
C22_CudaTiers ==
    LET vram == policyOp.capability.gpu_vram_gb
        policy == policyOp.policy
    IN  policy.backend = "cuda" =>
           /\ vram >= 800 =>
                 /\ ~policy.use_quantization
                 /\ policy.gpu_layers = 999
                 /\ policy.max_context_length = 4096
                 /\ policy.max_batch_size = 8
           /\ (vram >= 400 /\ vram < 800) =>
                 /\ policy.use_quantization /\ policy.quantization_bits = 8
                 /\ policy.gpu_layers = 20
                 /\ policy.max_context_length = 2048
                 /\ policy.max_batch_size = 4
           /\ vram < 400 =>
                 /\ policy.use_quantization /\ policy.quantization_bits = 4
                 /\ policy.gpu_layers = 10
                 /\ policy.max_context_length = 2048
                 /\ policy.max_batch_size = 2
           /\ policy.max_threads = policyOp.capability.cpu_threads

\* a cuda policy was returned for VRAM of exactly 8 GB on a machine with
\* more threads than any cpu tier would allow
C22_Witness ==
    /\ policyOp.policy.backend = "cuda"
    /\ policyOp.capability.gpu_vram_gb = 800
    /\ policyOp.capability.cpu_threads = 16

\* ================================================================ claim C23
\* C23: a cpu policy has its tier by available RAM with exact cut points:
\* RAM >= 16 gives 8-bit, context 4096, batch 2, threads min(threads, 8);
\* 8 <= RAM < 16 gives 4-bit, context 2048, batch 1, threads
\* min(threads, 4); RAM < 8 gives 4-bit, context 1024, batch 1, threads
\* min(threads, 2); exactly 16 is in the first tier and exactly 8 in the
\* second; gpu_layers is 0 in every tier.
C23_CpuTiers ==
    LET ram == policyOp.capability.available_ram_gb
        threads == policyOp.capability.cpu_threads
        policy == policyOp.policy
    IN  (policyOp # NoPolicyCall /\ policy.backend = "cpu") =>
           /\ ram >= 1600 =>
                 /\ policy.quantization_bits = 8
                 /\ policy.max_context_length = 4096
                 /\ policy.max_batch_size = 2
                 /\ policy.max_threads = Min(threads, 8)
           /\ (ram >= 800 /\ ram < 1600) =>
                 /\ policy.quantization_bits = 4
                 /\ policy.max_context_length = 2048
                 /\ policy.max_batch_size = 1
                 /\ policy.max_threads = Min(threads, 4)
           /\ ram < 800 =>
                 /\ policy.quantization_bits = 4
                 /\ policy.max_context_length = 1024
                 /\ policy.max_batch_size = 1
                 /\ policy.max_threads = Min(threads, 2)
           /\ policy.gpu_layers = 0

\* a cpu policy was returned for exactly 16 GB of available RAM on a
\* 16-thread machine with an AMD card
C23_Witness ==
    /\ policyOp.policy.backend = "cpu"
    /\ policyOp.capability.available_ram_gb = 1600
    /\ policyOp.capability.cpu_threads = 16
    /\ policyOp.capability.gpu_vendor = "amd"

C25_DetectCaching ==
    [][\A d \in Detectors, force_refresh \in BOOLEAN :
          (/\ detOp'.d = d /\ detOp'.force_refresh = force_refresh
           /\ Detect(d, force_refresh))
          => /\ IF cached_capability[d] # NoCap /\ ~force_refresh
                THEN /\ detOp'.result = cached_capability[d]
                     /\ cached_capability' = cached_capability
                ELSE /\ detOp'.result = hardware
                     /\ cached_capability'[d] = hardware
             /\ \A o \in Detectors \ {d} :
                   cached_capability'[o] = cached_capability[o]
      ]_vars

\* an unforced call returned the snapshot taken on the NVIDIA machine
\* although the machine no longer reports the card
C25_Witness ==
    /\ detOp = DetectCall("chat", FALSE, nvidia_8gb)
    /\ cached_capability["chat"] = nvidia_8gb
    /\ hardware = cpu_low

\* ================================================================ claim C26
\* the GPU facility gave no card to any probe of the run: GPUtil is not
\* installed, or every query raised or returned the empty list
NoGpuSeen ==
    \/ ~probeOp.available
    \/ \A i \in 1..4 : probeOp.answers[i].kind = "raises"
                          \/ probeOp.answers[i].count = 0

\* C26: detection never fails because of the GPU: when GPUtil is absent,
\* reports no GPU or raises, the snapshot has gpu_vendor none, no gpu_name,
\* no gpu_vram_gb and gpu_count 0; cpu_cores and cpu_threads are at least 1
\* in every snapshot.
C26_GpuDegradesToNone ==
    probeOp # NoProbe =>
       /\ NoGpuSeen =>
             /\ probeOp.snapshot.gpu_vendor = "none"
             /\ probeOp.snapshot.gpu_name = NoName
             /\ probeOp.snapshot.gpu_vram_gb = Unknown
             /\ probeOp.snapshot.gpu_count = 0
       /\ probeOp.snapshot.cpu_cores >= 1
       /\ probeOp.snapshot.cpu_threads >= 1

\* GPUtil is installed and raised in every probe, on a machine whose core
\* and thread counts psutil cannot tell
C26_Witness ==
    /\ probeOp.available
    /\ probeOp.answers = <<Raises, Raises, Raises, Raises>>
    /\ probeOp.cores = 0 /\ probeOp.threads = 0
    /\ probeOp.snapshot = Snapshot(1, 1, "none", NoName, Unknown, 0)

\* ================================================================ claim C27
\* C27: there is no eviction: the set of loaded ids of an engine changes
\* only by a successful load, which adds that id, and by unload, which
\* removes that id; generate, generate_cloud, set_active_model,
\* register_model, remove_model and the loading of other ids never remove
\* or replace a handle, so a loaded id whose record is removed stays loaded.
C27_NoEviction ==
    [][\A e \in Engines :
          LET old == DOMAIN loaded_models[e]
              new == DOMAIN loaded_models'[e]
          IN  /\ new # old =>
                    \/ /\ lastOp'.op = "load" /\ lastOp'.e = e
                       /\ lastOp'.outcome = "constructed"
                       /\ lastOp'.id \notin old
                       /\ new = old \cup {lastOp'.id}
                    \/ /\ lastOp'.op = "unload" /\ lastOp'.e = e
                       /\ new = old \ {lastOp'.id}
              /\ \A m \in old \cap new :
                    loaded_models'[e][m] = loaded_models[e][m]
              /\ (regOp' # regOp \/ models' # models \/ cloudOp' # cloudOp
                     \/ lastOp'.op = "generate")
                    => loaded_models' = loaded_models
      ]_vars

\* the record of a loaded id was removed from the registry and the id is
\* still loaded, next to another loaded id
C27_Witness ==
    /\ regOp.op = "remove" /\ regOp.result = "true"
    /\ regOp.id \notin DOMAIN models
    /\ is_loaded(loaded_models["chat"], regOp.id)
    /\ Cardinality(DOMAIN loaded_models["chat"]) > 1

\* ================================================================ claim C28
\* C28: get_active_chat_model returns the active row when there is one and
\* its metadata role is not system_intent; it returns nothing when no row is
\* active or the active row has role system_intent; it never returns a
\* system_intent row and never changes the registry.
C28_ActiveChatModel ==
    [][\A result \in ModelIds \cup {BaseId, None} :
          (/\ regOp'.op = "get_active_chat" /\ regOp'.id = result
           /\ GetActiveChatModel(result))
          => /\ models' = models
             /\ result # None =>
                   /\ result \in ActiveIds(models)
                   /\ models[result].role # "system_intent"
             /\ ActiveIds(models) = {} => result = None
             /\ \A a \in DOMAIN models :
                   ActiveIds(models) = {a} =>
                      result = IF models[a].role = "system_intent"
                               THEN None ELSE a
      ]_vars

\* the call returned nothing because the active row is the system intent
\* model, while a chat model is registered but not active
C28_Witness ==
    /\ regOp.op = "get_active_chat" /\ regOp.result = "none"
    /\ \E a \in DOMAIN models :
          /\ ActiveIds(models) = {a}
          /\ models[a].role = "system_intent"
    /\ \E m \in DOMAIN models :
          ~models[m].is_active /\ models[m].role = "none"

\* ================================================================ claim C29
\* C29: every successful result of generate, the non-streaming result and
\* the final event of a streaming one, carries metrics with the latency in
\* ms, the tokens generated and the tokens per second, and the tokens per
\* second are 0 when the elapsed time is 0.
C29_MetricsComplete ==
    genOut # NoGenResult =>
       /\ genOut.metrics.latency_ms # Absent
       /\ genOut.metrics.tokens_generated # Absent
       /\ genOut.metrics.tokens_per_sec # Absent
       /\ (genOut.elapsed = 0 => genOut.metrics.tokens_per_sec = 0)

\* ================================================================ claim C30
\* C30: the request paths share one table of loaded handles: every engine
\* of the process reports the same ids as loaded, the status endpoint
\* reports every id that is loaded in the process when it is asked, and at
\* most one runtime handle exists per model id.
C30_OneSharedHandleTable ==
    [][/\ \A e1 \in Engines, e2 \in Engines, id \in ModelIds :
             is_loaded(loaded_models'[e1], id) = is_loaded(loaded_models'[e2], id)
       /\ GetSystemFullStatus => statusOp'.loaded = LoadedAnywhere
       /\ \A id \in ModelIds :
             Cardinality({e \in Engines : is_loaded(loaded_models'[e], id)}) <= 1
      ]_vars

\* ================================================================ claim C31
\* the failures of generate_cloud that carry a type of their own
TypedFailures == {"invalid_key", "rate_limited", "provider_error"}

\* C31: a generation request routed to a cloud row reports the invalid-key,
\* the rate-limited and the generic provider-error condition to its caller
\* as distinct outcomes: the status the caller receives for one of them is
\* the status generate_cloud raised, and is not the status the handler
\* gives for either of the other two.
C31_TypedFailuresSurface ==
    chatOut.condition \in TypedFailures =>
       /\ chatOut.status = cloud_status(chatOut.condition)
       /\ \A other \in TypedFailures \ {chatOut.condition} :
             chatOut.status # single_chat_cloud(CloudResult(other, 1)).status

\* ================================================================ claim C32
\* stream s is in its monitor loop and its transfer has not finished
Polling(s) == streams[s].at \in {"yield", "sleep"} /\ future[s] = "running"

\* C32: a cancel issued for the id of a stream that is in its polling loop
\* with its transfer unfinished is seen at the stream's next poll check: the
\* flag stays set while the stream has not moved, the poll check that finds
\* it emits the cancellation event, and the stream then ends; the transfer
\* is not awaited and is left running.
C32_CancelSeenAtNextPoll ==
    [][\A s \in Streams :
         LET id == streams[s].model_id IN
         /\ (Polling(s) /\ id \in cancel_flags /\ streams'[s] = streams[s])
               => id \in cancel_flags'
         /\ (Polling(s) /\ id \in cancel_flags /\ streams[s].at = "yield"
                 /\ streams'[s] # streams[s])
               => /\ streams'[s] = Stream("cancelled", id,
                                          Append(streams[s].events, "cancelled"))
                  /\ future'[s] = "running"
         /\ (streams[s].at = "cancelled" /\ streams'[s] # streams[s])
               => streams'[s].at = "done" /\ future'[s] = future[s]
      ]_vars

\* ================================================================ claim C33
\* C33: a cancel request affects only the fetch that is in flight for the id
\* when it is issued: a fetch that starts finds no cancel request pending
\* for its id, whether the request was issued with no fetch of the id in
\* flight, after the fetch of the id had emitted its terminal event, or to
\* a stream that was not read further after its cancellation event; so no
\* earlier cancel ends a fetch started later.
C33_CancelOnlyInFlight ==
    [][\A s \in Streams, id \in ModelIds :
          (streams[s].at = "new" /\ StreamStart(s, id)) => id \notin cancel_flags
      ]_vars

\* ================================================================ claim C34
\* the stream has emitted the given event
Emitted(st, ev) == \E i \in 1..Len(st.events) : st.events[i] = ev

\* C34: a stream that ends because it observed cancel never registers the
\* model: the only step of a stream that changes the registry is the one
\* that emits complete, no stream emits both the cancellation event and
\* complete, and neither the later steps of a cancelled stream nor the end
\* of its orphaned transfer change the registry or the active flags.
C34_CancelledNeverRegisters ==
    [][\A s \in Streams :
         /\ (streams'[s] # streams[s] /\ models' # models)
               => streams'[s].events = Append(streams[s].events, "complete")
         /\ ~(Emitted(streams'[s], "cancelled") /\ Emitted(streams'[s], "complete"))
         /\ (/\ Emitted(streams'[s], "cancelled")
             /\ (streams'[s] # streams[s] \/ future'[s] # future[s]))
               => models' = models
      ]_vars

\* a stream ended by cancellation whose orphaned transfer then delivered
\* the file, with no row for its id in the registry
C34_Witness ==
    \E s \in Streams :
        /\ streams[s].at = "done"
        /\ Emitted(streams[s], "cancelled")
        /\ future[s] = "ok"
        /\ files # {}
        /\ streams[s].model_id \notin DOMAIN models

\* ================================================================ claim C35
\* C35: in every progress stream the first event is a downloading event
\* with progress 0, the progress values of successive downloading events
\* never decrease and never exceed 90, progress 100 appears only in the
\* complete event, and nothing is emitted after a complete or error event.
C35_ProgressShape ==
    \A s \in Streams :
        LET evs == streams[s].events
            pr  == progress[s]
        IN  /\ Len(evs) > 0 => evs[1] = "downloading" /\ pr[1] = 0
            /\ \A i \in 1..Len(evs), j \in 1..Len(evs) :
                  (i < j /\ evs[i] = "downloading" /\ evs[j] = "downloading")
                     => pr[i] <= pr[j] /\ pr[j] <= 90
            /\ \A i \in 1..Len(evs) : pr[i] = 100 => evs[i] = "complete"
            /\ \A i \in 1..Len(evs) : Terminal(evs[i]) => i = Len(evs)

\* ================================================================ claim C36
\* C36: after remove_model has succeeded on a record that was active no
\* record is active: get_active_model and get_active_chat_model return
\* nothing, and the call has promoted no other record (every other row is
\* as it was).
C36_RemoveActiveLeavesNone ==
    [][\A id \in ModelIds :
          (/\ regOp'.op = "remove" /\ regOp'.id = id /\ regOp'.result = "true"
           /\ id \in DOMAIN models /\ models[id].is_active
           /\ Remove(id))
          => /\ ActiveIds(models') = {}
             /\ get_active_model(models') = {None}
             /\ get_active_chat_model(models') = {None}
             /\ \A m \in DOMAIN models \ {id} :
                   m \in DOMAIN models' /\ models'[m] = models[m]
      ]_vars

\* ================================================================ claim C37
\* C37: every policy evaluate returns for a capability with at least one
\* cpu thread has backend cpu or cuda, gpu_layers = 0 exactly when the
\* backend is cpu, quantization_bits 4, 8 or 16 with use_quantization false
\* exactly at 16 bits, max_batch_size >= 1, max_context_length 1024, 2048
\* or 4096, and 1 <= max_threads <= cpu_threads.
C37_PolicyWellFormed ==
    LET policy == policyOp.policy
        capability == policyOp.capability
    IN  (policyOp # NoPolicyCall /\ capability.cpu_threads >= 1) =>
           /\ policy.backend \in {"cpu", "cuda"}
           /\ (policy.gpu_layers = 0) <=> (policy.backend = "cpu")
           /\ policy.gpu_layers >= 0
           /\ policy.quantization_bits \in {4, 8, 16}
           /\ (~policy.use_quantization) <=> (policy.quantization_bits = 16)
           /\ policy.max_batch_size >= 1
           /\ policy.max_context_length \in {1024, 2048, 4096}
           /\ 1 <= policy.max_threads
           /\ policy.max_threads <= capability.cpu_threads

\* a cuda policy of the lowest tier was returned on a one-thread machine
C37_Witness ==
    /\ policyOp.policy.backend = "cuda"
    /\ policyOp.policy.quantization_bits = 4
    /\ policyOp.capability.cpu_threads = 1
    /\ policyOp.policy.max_threads = 1

\* ================================================================ claim C38
\* C38: the commit that ends a successful pull-intent / pull-custom leaves the
\* pulled model's row in the registry as the only active row; a pull that
\* fails adds no row, changes no active flag and starts no activation; no
\* step of a progress stream changes the active flag of any row, and the
\* row a stream registers is not active.
C38_PullActivatesStreamDoesNot ==
    [][/\ \A id \in ModelIds :
            /\ (regOp' # regOp /\ regOp' = RegCall("pull_intent", id, "pulled", <<>>))
                  => /\ id \in DOMAIN models'
                     /\ pc'["api"] = "sa_call" /\ arg'["api"] = id
            /\ (regOp' # regOp /\ regOp' = RegCall("pull_intent", id, "500", <<>>))
                  => (models' = models /\ pc' = pc)
       /\ (pc["api"] = "sa_update" /\ pc'["api"] = "sa_ret")
             => /\ ret'["api"]
                /\ arg["api"] \in DOMAIN models'
                /\ ActiveIds(models') = {arg["api"]}
                /\ get_active_model(models') = {arg["api"]}
       /\ \A s \in Streams :
            streams'[s] # streams[s]
              => /\ ActiveIds(models') = ActiveIds(models)
                 /\ DOMAIN models \subseteq DOMAIN models'
                 /\ \A m \in DOMAIN models :
                       models'[m].is_active = models[m].is_active
      ]_vars

\* the pull has committed: its row is the only active one although setup.py
\* had marked the base model active before, and a progress stream has
\* completed next to it
C38_Witness ==
    /\ pc["api"] = "sa_ret" /\ ret["api"]
    /\ regOp = RegCall("pull_intent", arg["api"], "pulled", <<>>)
    /\ arg["api"] # BaseId
    /\ ActiveIds(models) = {arg["api"]}
    /\ BaseId \in DOMAIN models /\ models[BaseId].is_base_model
    /\ \E i \in 1..Len(streams[1].events) : streams[1].events[i] = "complete"

====
